---- MODULE Spec2Model ----
(***************************************************************************)
(* A state-machine model of the time-windowed transaction harvester of     *)
(* terra-anchor-run-transparency:                                          *)
(*   src/src/etl/pull_fcd.py  offset-paginated harvester (FCD)             *)
(*   src/src/etl/pull_lcd.py  height-indexed client (LCD)                  *)
(*                                                                         *)
(* Time is counted in ticks; TicksPerHour ticks make one hour, so that a   *)
(* timestamp and a window bound may or may not be hour-aligned.            *)
(* Text is a sequence of one-character strings.  A decimal number is a     *)
(* record [n, d] that stands for n / 10^d.                                 *)
(***************************************************************************)
EXTENDS Integers, Sequences, FiniteSets, TLC

(***************************************************************************)
(* Bounds of the model.                                                    *)
(***************************************************************************)
MaxTx == 4
MaxTime == 2
MaxRuns == 2
MaxHeight == 4
MaxRetries == 3
MaxParts == 4
MaxCalls == 2
MaxAttrs == 4
MaxRows == 4

TicksPerHour == 2
Limit == 2
PageLimit == 2
LcdMaxPages == 2
MaxPages == 3
MaxSeekPages == 4
ChunkSize == 2

(***************************************************************************)
(* Python's None, in each of the types it appears in.                      *)
(***************************************************************************)
None == -1000
NoneStr == "<None>"
NoneText == <<"<None>">>
NoNumber == [n |-> 0, d |-> -1]

Min(a, b) == IF a <= b THEN a ELSE b
Max(a, b) == IF a >= b THEN a ELSE b

Truthy(offset) == offset # None /\ offset # 0

(***************************************************************************)
(* Text helpers: str.strip, str.split(","), "in", endswith, replace.       *)
(***************************************************************************)
DigitChars == {"0", "1", "2", "3", "4", "5", "6", "7", "8", "9"}

DigitVal(c) ==
    CASE c = "0" -> 0 [] c = "1" -> 1 [] c = "2" -> 2 [] c = "3" -> 3
      [] c = "4" -> 4 [] c = "5" -> 5 [] c = "6" -> 6 [] c = "7" -> 7
      [] c = "8" -> 8 [] c = "9" -> 9

Uusd == <<"u", "u", "s", "d">>

HasPrefix(text, pat) ==
    /\ Len(pat) <= Len(text)
    /\ SubSeq(text, 1, Len(pat)) = pat

EndsWith(text, pat) ==
    /\ Len(pat) <= Len(text)
    /\ SubSeq(text, Len(text) - Len(pat) + 1, Len(text)) = pat

Contains(text, pat) ==
    \E i \in 1..(Len(text) - Len(pat) + 1) : SubSeq(text, i, i + Len(pat) - 1) = pat

RECURSIVE Replace(_, _)
Replace(text, pat) ==
    IF text = <<>> THEN <<>>
    ELSE IF HasPrefix(text, pat) THEN Replace(SubSeq(text, Len(pat) + 1, Len(text)), pat)
    ELSE <<Head(text)>> \o Replace(Tail(text), pat)

RECURSIVE LStrip(_)
LStrip(text) ==
    IF text # <<>> /\ Head(text) = " " THEN LStrip(Tail(text)) ELSE text

RECURSIVE RStrip(_)
RStrip(text) ==
    IF text # <<>> /\ text[Len(text)] = " "
    THEN RStrip(SubSeq(text, 1, Len(text) - 1)) ELSE text

Strip(text) == RStrip(LStrip(text))

RECURSIVE SplitComma(_)
SplitComma(text) ==
    IF \A i \in 1..Len(text) : text[i] # ","
    THEN <<text>>
    ELSE LET k == CHOOSE i \in 1..Len(text) :
                      text[i] = "," /\ \A j \in 1..(i - 1) : text[j] # ","
         IN  <<SubSeq(text, 1, k - 1)>> \o SplitComma(SubSeq(text, k + 1, Len(text)))

IsDigit(text) == text # <<>> /\ \A i \in 1..Len(text) : text[i] \in DigitChars

RECURSIVE IntOf(_)
IntOf(text) ==
    IF text = <<>> THEN 0
    ELSE 10 * IntOf(SubSeq(text, 1, Len(text) - 1)) + DigitVal(text[Len(text)])

(***************************************************************************)
(* float(text), for the texts over the modelled alphabet (digits, sign,    *)
(* point, blank, letters): blanks around, an optional sign, digits with at *)
(* most one point and at least one digit.  Anything else is a ValueError,  *)
(* returned here as NoNumber.                                              *)
(***************************************************************************)
FloatOf(text) ==
    LET s == Strip(text)
        signed == s # <<>> /\ Head(s) \in {"+", "-"}
        body == IF signed THEN Tail(s) ELSE s
        points == {i \in 1..Len(body) : body[i] = "."}
        ip == IF points = {} THEN body
              ELSE LET p == CHOOSE i \in points : TRUE IN SubSeq(body, 1, p - 1)
        fp == IF points = {} THEN <<>>
              ELSE LET p == CHOOSE i \in points : TRUE IN SubSeq(body, p + 1, Len(body))
        ok == /\ Cardinality(points) <= 1
              /\ \A i \in 1..Len(ip) : ip[i] \in DigitChars
              /\ \A i \in 1..Len(fp) : fp[i] \in DigitChars
              /\ Len(ip) + Len(fp) >= 1
        mag == IntOf(ip \o fp)
    IN  IF ok
        THEN [n |-> IF signed /\ Head(s) = "-" THEN 0 - mag ELSE mag, d |-> Len(fp)]
        ELSE NoNumber

\* a variant that does not divide; C15_ParseAmount does not hold of it
DivMillion_Undivided(x) == x

\* lines 54, 59: / 1e6
DivMillion(x) == [n |-> x.n, d |-> x.d + 6]

(***************************************************************************)
(* _parse_amount (pull_fcd.py).  The value is NoNumber where the code      *)
(* returns None.                                                           *)
(***************************************************************************)
RECURSIVE UusdPart(_)
UusdPart(parts) ==
    IF parts = <<>> THEN NoNumber
    ELSE LET part == Strip(Head(parts))
         IN  IF EndsWith(part, Uusd)
             THEN LET f == FloatOf(Replace(part, Uusd))
                  IN  IF f = NoNumber THEN NoNumber ELSE DivMillion(f)
             ELSE UusdPart(Tail(parts))

_parse_amount(value) ==
    IF value = NoneText THEN NoNumber
    ELSE IF value = <<>> THEN NoNumber
    ELSE IF Contains(value, Uusd) THEN UusdPart(SplitComma(value))
    ELSE IF IsDigit(value) THEN DivMillion(FloatOf(value))
    ELSE FloatOf(value)

(***************************************************************************)
(* _parse_uusd (pull_lcd.py).  A value that is a number of the event (an   *)
(* int or a float, not a text) is its numeral behind a marker.  The result *)
(* is [pc, out]: pc is "raised" where float() raises ValueError, which     *)
(* nothing in _parse_uusd catches.                                         *)
(***************************************************************************)
NumberMark == "<number>"

\* line 42: isinstance(value, (int, float))
IsNumberValue(value) == value # <<>> /\ Head(value) = NumberMark

\* str(value)
StrOf(value) == IF IsNumberValue(value) THEN Tail(value) ELSE value

\* line 40: not value, for None, "", 0 and 0.0
NotValue(value) ==
    \/ value = NoneText
    \/ value = <<>>
    \/ IsNumberValue(value) /\ FloatOf(Tail(value)).n = 0

Returned(x) == [pc |-> "returned", out |-> x]
Raised == [pc |-> "raised", out |-> NoNumber]

\* line 49: float(part.replace("uusd", "")) / 1e6
UusdFloat(part) ==
    LET f == FloatOf(Replace(part, Uusd))
    IN  IF f = NoNumber THEN Raised ELSE Returned(DivMillion(f))

RECURSIVE UusdPartLcd(_)
\* lines 46-50: the first part that ends with "uusd"
UusdPartLcd(parts) ==
    IF parts = <<>> THEN Returned(NoNumber)
    ELSE LET part == Strip(Head(parts))
         IN  IF EndsWith(part, Uusd) THEN UusdFloat(part) ELSE UusdPartLcd(Tail(parts))

_parse_uusd(value) ==
    IF NotValue(value) THEN Returned(NoNumber)
    ELSE IF IsNumberValue(value) THEN Returned(DivMillion(FloatOf(Tail(value))))
    ELSE IF Contains(StrOf(value), Uusd) THEN UusdPartLcd(SplitComma(StrOf(value)))
    ELSE IF IsDigit(StrOf(value)) THEN Returned(DivMillion(FloatOf(StrOf(value))))
    ELSE Returned(NoNumber)

(***************************************************************************)
(* Action extraction (pull_fcd.py).  A raw transaction is a record         *)
(*   [timestamp, txhash, msgs, logs, raw_log]                              *)
(* msgs: the messages' [sender, from_address]; logs: the parsed logs, each *)
(* a sequence of events [type, attributes]; raw_log: [kind, logs] with     *)
(* kind "missing", "empty", "brackets" (the text "[]"), "invalid" (not     *)
(* JSON), "list" (a JSON list of logs), "object" (a JSON object with       *)
(* keys) or "scalar" (a JSON number or null).                              *)
(***************************************************************************)
SENDER_KEYS == {"sender", "from", "owner", "redeemer"}
AMOUNT_KEYS == {"amount", "deposit_amount", "redeem_amount", "returned_amount"}

\* a variant that takes the empty string for a value; C31_RowsHaveWallet does
\* not hold of it
Falsy_NoneOnly(s) == s = NoneStr

\* `not s` for a string or None (lines 142-143, 222, 316)
Falsy(s) == s = NoneStr \/ s = ""

RECURSIVE _extract_sender(_)
_extract_sender(msgs) ==
    IF msgs = <<>> THEN NoneStr
    ELSE LET msg == Head(msgs)
             sender == IF Falsy(msg.sender) THEN msg.from_address ELSE msg.sender
         IN  IF Falsy(sender) THEN _extract_sender(Tail(msgs)) ELSE sender

RECURSIVE LogEvents(_)
LogEvents(logs) ==
    IF logs = <<>> THEN <<>> ELSE Head(logs) \o LogEvents(Tail(logs))

_iter_events(tx) ==
    IF tx.logs # <<>> THEN LogEvents(tx.logs)
    ELSE IF tx.raw_log.kind = "list" THEN LogEvents(tx.raw_log.logs)
    ELSE <<>>

\* a variant in which a later attribute replaces the value; C32_Segments does
\* not hold of it
FieldIsNone_Always(v, none) == TRUE

\* lines 193, 195: current["sender"] is None, current["amount"] is None
FieldIsNone(v, none) == v = none

RECURSIVE SegmentScan(_, _, _, _)
SegmentScan(attrs, segments, current, current_contract) ==
    IF attrs = <<>> THEN segments \o current
    ELSE LET attr == Head(attrs)
             rest == Tail(attrs)
         IN  IF attr.key = "contract_address"
             THEN SegmentScan(rest, segments, current, attr.value)
             ELSE IF attr.key = "action"
             THEN SegmentScan(rest, segments \o current,
                              <<[action |-> attr.value,
                                 contract_address |-> current_contract,
                                 amount |-> NoneText,
                                 sender |-> NoneStr]>>,
                              current_contract)
             ELSE IF current = <<>>
             THEN SegmentScan(rest, segments, current, current_contract)
             ELSE LET c0 == current[1]
                      c1 == IF attr.key \in SENDER_KEYS /\ FieldIsNone(c0.sender, NoneStr)
                            THEN [c0 EXCEPT !.sender = attr.value] ELSE c0
                      c2 == IF attr.key \in AMOUNT_KEYS /\ FieldIsNone(c1.amount, NoneText)
                            THEN [c1 EXCEPT !.amount = attr.value] ELSE c1
                  IN  SegmentScan(rest, segments, <<c2>>, current_contract)

_event_segments(event) == SegmentScan(event.attributes, <<>>, <<>>, NoneStr)

RECURSIVE SegmentRows(_, _, _)
SegmentRows(segments, sender, txhash) ==
    IF segments = <<>> THEN <<>>
    ELSE LET seg == Head(segments)
             amount == _parse_amount(seg.amount)
         IN  IF seg.action \notin {"deposit_stable", "redeem_stable"} \/ amount = NoNumber
             THEN SegmentRows(Tail(segments), sender, txhash)
             ELSE <<[action |-> seg.action,
                     wallet |-> IF Falsy(seg.sender) THEN sender ELSE seg.sender,
                     amount |-> amount,
                     txhash |-> txhash]>>
                  \o SegmentRows(Tail(segments), sender, txhash)

RECURSIVE EventRows(_, _, _)
EventRows(events, sender, txhash) ==
    IF events = <<>> THEN <<>>
    ELSE LET event == Head(events)
         IN  (IF event.type \in {"wasm", "execute_contract"}
              THEN SegmentRows(_event_segments(event), sender, txhash)
              ELSE <<>>)
             \o EventRows(Tail(events), sender, txhash)

_extract_actions(tx) == EventRows(_iter_events(tx), _extract_sender(tx.msgs), tx.txhash)

\* lines 160-164: raw_log is JSON but not a list of logs.  A number or null
\* ("scalar") is not iterable at line 163; a non-empty object ("object")
\* iterates as its keys, and a key has no .get at line 164
IterEventsRaises(tx) ==
    tx.logs = <<>> /\ tx.raw_log.kind \in {"object", "scalar"}

(***************************************************************************)
(* The remote ledger and the harvester's state.                            *)
(*                                                                         *)
(* txlog[i] is the account's transaction with id i (ids 1..Len(txlog),     *)
(* larger id = newer); the log is time-ordered.  A page request with       *)
(* offset o returns, newest first, up to Limit transactions with id < o    *)
(* (the newest ones when o is None).                                       *)
(***************************************************************************)
VARIABLES
    txlog,            \* the ledger: [timestamp, shape] per transaction id
    start,            \* window start
    end,              \* window end
    next_on_last,     \* whether the ledger's last page carries "next"
    manual_offset,    \* TERRA_FCD_START_OFFSET: [kind, val]
    max_seek_pages,   \* client.max_seek_pages
    sink,             \* the action sink: the rows appended so far
    checkpoint,       \* the checkpoint file: [kind, window_start, window_end, offset]
    pc,               \* where _collect_actions stands
    offset,
    pages,
    seeking,
    low,
    high,
    best,
    probes,           \* iterations of the seek loop made
    data,             \* the page being processed: [txs, next]
    rows_to_write,
    stop,
    runs_left,        \* invocations of _collect_actions still to come
    prev_exit,        \* how the previous invocation ended: "none", "done", "killed", "raised"
    read_checkpoint,  \* what _read_checkpoint returned to this run
    latest_calls,     \* latest_id calls of this run
    fetched,          \* the harvest-loop fetches of this run: [offset, src], in order
    offset_src,       \* where the current offset came from
    done_pages        \* ids of the transactions on pages whose checkpoint was written

envVars == <<txlog, start, end, next_on_last, manual_offset, max_seek_pages>>
fileVars == <<sink, checkpoint>>
localVars == <<offset, pages, seeking, low, high, best, probes, data, rows_to_write, stop>>
histVars == <<runs_left, prev_exit, read_checkpoint, latest_calls, fetched, offset_src, done_pages>>
(***************************************************************************)
(* ActionWriter (pull_fcd.py): the sink is a CSV file, a header line and   *)
(* the rows.  headers records, for each header line in the file, how many  *)
(* rows precede it.                                                        *)
(***************************************************************************)
VARIABLES
    header_written,   \* writer.header_written
    headers           \* the header lines of the sink file

writerVars == <<header_written, headers>>

(***************************************************************************)
(* main (pull_fcd.py), after the harvest: what _aggregate_raw returned and *)
(* whether the two hourly files were written.                              *)
(***************************************************************************)
VARIABLES
    hourly            \* [kind, deposits, redeems]; kind "pending", "diagnostic" or "saved"

fcdVars == <<envVars, fileVars, pc, localVars, histVars, writerVars, hourly>>

(***************************************************************************)
(* LCDClient's height searches (pull_lcd.py): blocks[h] is the time of the *)
(* block at height h; the latest height is Len(blocks).                    *)
(***************************************************************************)
VARIABLES
    blocks,           \* block time per height
    target,           \* the time searched for
    lcd_pc,           \* "idle", "before" / "after" (in the loop of either search), "returned"
    lcd_op,           \* the search that runs or ran: "none", "before", "after"
    lcd_low,
    lcd_high,
    lcd_best,
    lcd_calls         \* block_time calls of the search

lcdVars == <<blocks, target, lcd_pc, lcd_op, lcd_low, lcd_high, lcd_best, lcd_calls>>

(***************************************************************************)
(* FCDClient._request (pull_fcd.py), called by fetch_page.                 *)
(***************************************************************************)
VARIABLES
    retries,          \* client.retries
    backoff,          \* client.backoff
    req_offset,       \* fetch_page's offset argument
    req_pc,           \* "idle", "try", "returned", "raised"
    attempt,          \* the loop's count of failed attempts
    http_gets,        \* session.get calls of this request
    slept             \* the delays slept, in order

reqVars == <<retries, backoff, req_offset, req_pc, attempt, http_gets, slept>>

(***************************************************************************)
(* _extract_actions (pull_fcd.py) applied to one raw transaction record.   *)
(***************************************************************************)
VARIABLES
    tx_in,            \* the raw transaction record
    tx_pc,            \* "idle", "returned", "raised"
    tx_out            \* the rows returned

txVars == <<tx_in, tx_pc, tx_out>>

(***************************************************************************)
(* _parse_amount (pull_fcd.py) and _parse_uusd (pull_lcd.py) applied to    *)
(* one value.                                                              *)
(***************************************************************************)
VARIABLES
    amt_in,           \* the value: a text, or NoneText
    amt_pc,           \* "idle", "returned"
    amt_out,          \* the number returned, NoNumber for None
    uusd_pc,          \* _parse_uusd: "idle", "returned", "raised"
    uusd_out          \* the number _parse_uusd returned, NoNumber for None

amtVars == <<amt_in, amt_pc, amt_out, uusd_pc, uusd_out>>

(***************************************************************************)
(* LCDClient._request and block_time (pull_lcd.py): the failover over the  *)
(* base URLs, and block_time's second try over the RPC URLs.               *)
(***************************************************************************)
VARIABLES
    env_url,          \* TERRA_LCD_URL: a text, NoneText when unset
    base_urls,        \* client.base_urls
    rpc_urls,         \* client.rpc_urls
    url_op,           \* the call: "none", "request" (_request) or "block_time"
    url_pc,           \* "idle", "lcd" / "rpc" (in the loop over that list), "returned", "raised"
    url_index,        \* the position of the loop in its list
    contacted,        \* the session.get calls of this call: [list, index, url, ok]
    calls_made,       \* calls so far
    failed_urls       \* the URLs that failed in earlier calls

urlVars == <<env_url, base_urls, rpc_urls, url_op, url_pc, url_index, contacted, calls_made,
             failed_urls>>

(***************************************************************************)
(* LCDClient.search_txs (pull_lcd.py).  The chain is blocks; the block at  *)
(* each height holds one transaction that matches the events, named by its *)
(* height.                                                                 *)
(***************************************************************************)
VARIABLES
    reverse,          \* the arguments
    start_time,
    end_time,
    height_filter,
    lcd_max_pages,    \* client.max_pages (TERRA_MAX_PAGES)
    search_pc,        \* "idle", "lookup", "request", "returned", "raised"
    use_height,
    height_events,    \* <<start_height, end_height>> of the tx.height predicates, <<>> without
    next_key,
    search_pages,     \* pages
    search_rows,      \* rows
    requests          \* the page requests so far: [use_height, key, outcome]

searchVars == <<reverse, start_time, end_time, height_filter, lcd_max_pages, search_pc,
                use_height, height_events, next_key, search_pages, search_rows, requests>>

Ids == 1..Len(txlog)
Times == 0..MaxTime

(***************************************************************************)
(* The raw transaction of each shape.                                      *)
(*   plain: parsed logs, one deposit whose wallet is the message sender    *)
(*   mixed: only a raw log; a foreign event, an unrecognized action, a     *)
(*          redeem with its own sender and a uusd amount, and a deposit    *)
(*          whose amount does not parse                                    *)
(*   void:  a deposit with an amount and no resolvable wallet              *)
(***************************************************************************)
Shapes == {"plain", "mixed", "void"}

Attr(k, v) == [key |-> k, value |-> v]

RawTx(id) ==
    LET shape == txlog[id].shape
        base == [timestamp |-> txlog[id].timestamp, txhash |-> id]
    IN  CASE shape = "plain" ->
               base @@ [msgs |-> <<[sender |-> "terra1a", from_address |-> NoneStr]>>,
                        logs |-> << <<[type |-> "wasm", attributes |->
                                  <<Attr("contract_address", "market"),
                                    Attr("action", "deposit_stable"),
                                    Attr("depositor", "terra1a"),
                                    Attr("mint_amount", <<"4">>),
                                    Attr("deposit_amount", <<"5", "0">>)>>]>> >>,
                        raw_log |-> [kind |-> "missing", logs |-> <<>>]]
          [] shape = "mixed" ->
               base @@ [msgs |-> <<[sender |-> "", from_address |-> "terra1c"]>>,
                        logs |-> <<>>,
                        raw_log |-> [kind |-> "list", logs |->
                           << <<[type |-> "message", attributes |->
                                  <<Attr("action", "redeem_stable"),
                                    Attr("amount", <<"1">>)>>],
                                [type |-> "execute_contract", attributes |->
                                  <<Attr("sender", "terra1x"),
                                    Attr("contract_address", "aust"),
                                    Attr("action", "send"),
                                    Attr("from", "terra1b"),
                                    Attr("amount", <<"9">>),
                                    Attr("contract_address", "market"),
                                    Attr("action", "redeem_stable"),
                                    Attr("redeemer", "terra1b"),
                                    Attr("redeem_amount",
                                         <<"7", "u", "u", "s", "d">>),
                                    Attr("action", "deposit_stable"),
                                    Attr("amount", <<"x">>)>>]>> >>]]
          [] shape = "void" ->
               base @@ [msgs |-> <<>>,
                        logs |-> << <<[type |-> "wasm", attributes |->
                                  <<Attr("action", "deposit_stable"),
                                    Attr("deposit_amount", <<"3">>)>>]>> >>,
                        raw_log |-> [kind |-> "invalid", logs |-> <<>>]]

(***************************************************************************)
(* FCDClient.fetch_page / latest_id against the ledger.  A request that    *)
(* exhausts its retries is the action FetchFails below.                    *)
(***************************************************************************)
fetch_page(off) ==
    LET newest == IF off = None THEN Len(txlog) ELSE Min(off - 1, Len(txlog))
        count == Min(Limit, Max(newest, 0))
        last == newest - count + 1
    IN  [txs |-> [k \in 1..count |-> newest - k + 1],
         next |-> IF count = 0 THEN None
                  ELSE IF last > 1 \/ next_on_last THEN last
                  ELSE None]

latest_id ==
    LET txs == fetch_page(None).txs
    IN  IF txs = <<>> THEN None ELSE txs[1]

ts_of(id) == txlog[id].timestamp

hour_of(ts) == ts - (ts % TicksPerHour)

(***************************************************************************)
(* Checkpoint store.                                                       *)
(***************************************************************************)
NoCheckpoint == [kind |-> "absent", window_start |-> 0, window_end |-> 0, offset |-> None]
CorruptCheckpoint == [NoCheckpoint EXCEPT !.kind = "corrupt"]

\* a variant that hands on whatever the file holds; C38_CorruptIsAbsent does not
\* hold of it
_read_checkpoint_Raw == checkpoint

\* lines 126-132: None for a file that is absent or that json.loads rejects
_read_checkpoint == IF checkpoint.kind = "ok" THEN checkpoint ELSE NoCheckpoint

\* a variant that records the offset before the page's last transaction;
\* C4_NoGapAfterResume does not hold of it
checkpoint_payload_OffByOne(off) ==
    [kind |-> "ok", window_start |-> start, window_end |-> end,
     offset |-> IF off = None THEN None ELSE off + 1 - 2]

\* a variant that records the window the other way round;
\* C28_CheckpointPerHarvestedPage does not hold of it
checkpoint_payload_Swapped(off) ==
    [kind |-> "ok", window_start |-> end, window_end |-> start, offset |-> off]

\* lines 332-342: the record written after a page
checkpoint_payload(off) ==
    [kind |-> "ok", window_start |-> start, window_end |-> end, offset |-> off]

\* a variant that compares window_start only; C3_StaleCheckpointIgnored does
\* not hold of it
CheckpointMatches_StartOnly(ck) ==
    ck.kind = "ok" /\ ck.window_start = start

\* line 255: the checkpoint is honoured only for the requested window
CheckpointMatches(ck) ==
    ck.kind = "ok" /\ ck.window_start = start /\ ck.window_end = end

\* a variant that leaves seeking set; C2_ResumeNeverSeeks does not hold of it
SeekingAfterResume_Always(off) == TRUE

\* line 257: seeking = False if offset else True
SeekingAfterResume(off) == ~Truthy(off)

(***************************************************************************)
(* The rows of one page (lines 304-326).                                   *)
(***************************************************************************)
InWindow(ts) == start <= ts /\ ts <= end

RECURSIVE WalletRows(_, _)
WalletRows(actions, hour) ==
    IF actions = <<>> THEN <<>>
    ELSE LET action == Head(actions)
         IN  (IF Falsy(action.wallet) THEN <<>>
              ELSE <<[hour |-> hour, wallet |-> action.wallet, action |-> action.action,
                      amount |-> action.amount, txhash |-> action.txhash]>>)
             \o WalletRows(Tail(actions), hour)

TxRows(id) == WalletRows(_extract_actions(RawTx(id)), hour_of(ts_of(id)))

\* a variant that never stops; C27_StopAtWindowStart does not hold of it
BeforeWindow_Never(ts) == FALSE

\* line 306: if ts < start
BeforeWindow(ts) == ts < start

RECURSIVE PageScan(_)
PageScan(txs) ==
    IF txs = <<>> THEN [rows |-> <<>>, stop |-> FALSE]
    ELSE LET ts == ts_of(Head(txs))
         IN  IF BeforeWindow(ts) THEN [rows |-> <<>>, stop |-> TRUE]
             ELSE LET rest == PageScan(Tail(txs))
                  IN  IF ts > end THEN rest
                      ELSE [rows |-> TxRows(Head(txs)) \o rest.rows, stop |-> rest.stop]

SeqRange(q) == {q[i] : i \in 1..Len(q)}

(***************************************************************************)
(* _collect_actions, one action per step between two effects.              *)
(***************************************************************************)
NoData == [txs |-> <<>>, next |-> None]

\* lines 244-251: the environment's start offset counts when it parses as an integer
ManualApplies(manual) == manual.kind = "int"

\* a variant in which a matching checkpoint goes before the manual offset;
\* C34_ManualOffsetWins does not hold of it
StartOffset_CheckpointFirst(manual, ck) ==
    IF CheckpointMatches(ck) THEN ck.offset
    ELSE IF ManualApplies(manual) THEN manual.val
    ELSE None

\* lines 239-258: the offset the run starts with
StartOffset(manual, ck) ==
    IF ManualApplies(manual) THEN manual.val
    ELSE IF CheckpointMatches(ck) THEN ck.offset
    ELSE None

\* a variant without line 248; C9_ManualOffsetSkipsSeek does not hold of it
StartSeeking_ManualSeeks(manual, ck) ==
    IF ManualApplies(manual) THEN TRUE
    ELSE IF CheckpointMatches(ck) THEN SeekingAfterResume(ck.offset)
    ELSE TRUE

\* lines 241-258: whether the run starts by seeking
StartSeeking(manual, ck) ==
    IF ManualApplies(manual) THEN FALSE
    ELSE IF CheckpointMatches(ck) THEN SeekingAfterResume(ck.offset)
    ELSE TRUE

\* the sink file holds at least one line
SinkNonEmpty == headers # <<>> \/ sink # <<>>

\* a variant without lines 409-410; C12_HeaderExactlyOnce does not hold of it
HeaderWrittenAtStart_Never(nonempty) == FALSE

\* lines 408-410: a new writer takes the header as written when the file is
\* there and not empty
HeaderWrittenAtStart(nonempty) == nonempty

\* lines 239-258: the manual offset, the checkpoint, the decision to seek.
(***************************************************************************)
(* _aggregate_raw and the end of main (pull_fcd.py).  Amounts are decimal  *)
(* numbers n / 10^d.                                                       *)
(***************************************************************************)
RECURSIVE Pow10(_)
Pow10(k) == IF k = 0 THEN 1 ELSE 10 * Pow10(k - 1)

\* float addition
AddNum(a, b) ==
    LET d == Max(a.d, b.d)
    IN  [n |-> a.n * Pow10(d - a.d) + b.n * Pow10(d - b.d), d |-> d]

RECURSIVE SumAmounts(_)
SumAmounts(rows) ==
    IF rows = <<>> THEN [n |-> 0, d |-> 0]
    ELSE AddNum(Head(rows).amount, SumAmounts(Tail(rows)))

\* line 376: chunk[(chunk["hour"] >= start) & (chunk["hour"] <= end)]
HourInWindow(hour, s, e) == s <= hour /\ hour <= e

\* lines 376-383: the (hour, wallet) groups of one action kind within a chunk
\* and their sums
KindTotals(rows, action, s, e) ==
    LET kept == SelectSeq(rows, LAMBDA r : HourInWindow(r.hour, s, e) /\ r.action = action)
        keys == {<<kept[i].hour, kept[i].wallet>> : i \in 1..Len(kept)}
    IN  {[hour |-> k[1], wallet |-> k[2],
          amount |-> SumAmounts(SelectSeq(kept, LAMBDA r : r.hour = k[1] /\ r.wallet = k[2]))] :
            k \in keys}

SameKey(a, b) == a.hour = b.hour /\ a.wallet = b.wallet

\* a variant in which the totals of a chunk replace those of the chunks
\* before; C33_HourlySums does not hold of it
MergeTotals_Overwrite(totals, grouped) ==
    {t \in totals : \A g \in grouped : ~SameKey(t, g)} \cup grouped

\* lines 384-386: target[key] = target.get(key, 0.0) + amount
MergeTotals(totals, grouped) ==
    {[t EXCEPT !.amount =
          IF \E g \in grouped : SameKey(t, g)
          THEN AddNum(t.amount, (CHOOSE g \in grouped : SameKey(t, g)).amount)
          ELSE t.amount] : t \in totals}
        \cup {g \in grouped : \A t \in totals : ~SameKey(t, g)}

RECURSIVE ChunkTotals(_, _, _, _, _)
\* lines 374-386: the file is read in chunks of ChunkSize rows, each chunk is
\* filtered and grouped, and its totals are merged into totals
ChunkTotals(rows, action, s, e, totals) ==
    IF rows = <<>> THEN totals
    ELSE LET n == Min(ChunkSize, Len(rows))
         IN  ChunkTotals(SubSeq(rows, n + 1, Len(rows)), action, s, e,
                         MergeTotals(totals, KindTotals(SubSeq(rows, 1, n), action, s, e)))

\* lines 365-390; a raw action log without a line is an absent file
_aggregate_raw(rows, s, e) ==
    IF ~SinkNonEmpty THEN [deposits |-> {}, redeems |-> {}]
    ELSE [deposits |-> ChunkTotals(rows, "deposit_stable", s, e, {}),
          redeems |-> ChunkTotals(rows, "redeem_stable", s, e, {})]

Pending == [kind |-> "pending", deposits |-> {}, redeems |-> {}]

\* lines 436-446: main after its harvests returned, or at once when
\* TERRA_FCD_ONLY_AGGREGATE is set; both files are written, or neither
Aggregate ==
    /\ pc \in {"idle", "done"}
    /\ hourly = Pending
    /\ LET agg == _aggregate_raw(sink, start, end)
       IN  hourly' = IF agg.deposits = {} /\ agg.redeems = {}
                     THEN [kind |-> "diagnostic", deposits |-> {}, redeems |-> {}]
                     ELSE [kind |-> "saved", deposits |-> agg.deposits,
                           redeems |-> agg.redeems]
    /\ UNCHANGED <<envVars, fileVars, pc, localVars, histVars, writerVars>>
    /\ UNCHANGED <<lcdVars, reqVars, txVars, amtVars, searchVars, urlVars>>

\* The invocation is the first of a new process (main builds the writer); after
\* a harvest that returned it may also be main's second call, for the second
\* account, with the writer of the first
Start ==
    /\ pc \in {"idle", "done", "killed", "raised"}
    /\ runs_left > 0
    /\ LET ck == _read_checkpoint
       IN  /\ offset' = StartOffset(manual_offset, ck)
           /\ seeking' = StartSeeking(manual_offset, ck)
           /\ offset_src' = IF ManualApplies(manual_offset) THEN "manual"
                            ELSE IF CheckpointMatches(ck) THEN "checkpoint" ELSE "none"
           /\ read_checkpoint' = ck
    /\ pc' = IF seeking' THEN "latest" ELSE "fetch"
    /\ runs_left' = runs_left - 1
    /\ prev_exit' = IF pc = "idle" THEN "none" ELSE pc
    /\ pages' = 0
    /\ low' = 0 /\ high' = 0 /\ best' = None /\ probes' = 0
    /\ data' = NoData /\ rows_to_write' = <<>> /\ stop' = FALSE
    /\ latest_calls' = 0 /\ fetched' = <<>>
    /\ \/ header_written' = HeaderWrittenAtStart(SinkNonEmpty)
       \/ pc = "done" /\ hourly = Pending /\ UNCHANGED header_written
    /\ hourly' = Pending
    /\ UNCHANGED <<envVars, fileVars, done_pages, headers>>
    /\ UNCHANGED <<lcdVars, reqVars, txVars, amtVars, searchVars, urlVars>>

\* lines 261-265
SeekLatest ==
    /\ pc = "latest"
    /\ latest_calls' = latest_calls + 1
    /\ IF latest_id = None
       THEN pc' = "done" /\ UNCHANGED <<low, high, best>>
       ELSE pc' = "probe" /\ low' = 0 /\ high' = latest_id /\ best' = None
    /\ UNCHANGED <<envVars, fileVars, offset, pages, seeking, probes, data, rows_to_write,
                   stop, runs_left, prev_exit, read_checkpoint, fetched, offset_src, done_pages>>
    /\ UNCHANGED <<hourly, writerVars, lcdVars, reqVars, txVars, amtVars, searchVars, urlVars>>

\* lines 266-279: one iteration of the seek loop
SeekProbe ==
    /\ pc = "probe"
    /\ probes < max_seek_pages
    /\ probes' = probes + 1
    /\ LET mid == (low + high) \div 2
           txs == fetch_page(mid).txs
       IN  IF txs = <<>> \/ ts_of(txs[1]) > end
           THEN high' = mid - 1 /\ UNCHANGED <<low, best>>
           ELSE best' = mid /\ low' = mid + 1 /\ UNCHANGED high
    /\ UNCHANGED <<envVars, fileVars, pc, offset, pages, seeking, data, rows_to_write,
                   stop, histVars>>
    /\ UNCHANGED <<hourly, writerVars, lcdVars, reqVars, txVars, amtVars, searchVars, urlVars>>

\* lines 280-283: the loop has used its max_seek_pages iterations
SeekEnd ==
    /\ pc = "probe"
    /\ probes >= max_seek_pages
    /\ IF best # None
       THEN offset' = best /\ seeking' = FALSE /\ offset_src' = "seek"
       ELSE UNCHANGED <<offset, seeking, offset_src>>
    /\ pc' = "fetch"
    /\ UNCHANGED <<envVars, fileVars, pages, low, high, best, probes, data, rows_to_write,
                   stop, runs_left, prev_exit, read_checkpoint, latest_calls, fetched, done_pages>>
    /\ UNCHANGED <<hourly, writerVars, lcdVars, reqVars, txVars, amtVars, searchVars, urlVars>>

\* a variant that allows one page more; C11_HarvestTerminates does not hold of it
PageCapReached_Late(n) == n > MaxPages

\* line 285: while pages < client.max_pages
PageCapReached(n) == n >= MaxPages

\* line 285: the page cap ends the loop
HarvestCap ==
    /\ pc = "fetch"
    /\ PageCapReached(pages)
    /\ pc' = "done"
    /\ UNCHANGED <<envVars, fileVars, localVars, histVars>>
    /\ UNCHANGED <<hourly, writerVars, lcdVars, reqVars, txVars, amtVars, searchVars, urlVars>>

\* a variant that looks at the newest transaction of the page;
\* C26_SkipWhileSeeking does not hold of it
PageAfterWindow_Newest(txs) == ts_of(txs[1]) > end

\* lines 291, 295: oldest_ts > end, for the page's last transaction
PageAfterWindow(txs) == ts_of(txs[Len(txs)]) > end

\* a variant that leaves the flag as it is; C25_PhasesMoveForward does not hold
\* of it
SeekingAfterHarvest_Kept(flag) == flag

\* line 302: seeking = False
SeekingAfterHarvest(flag) == FALSE

\* lines 286-326: fetch a page; leave on an empty page, skip a page that is
\* still after the window while seeking, else collect the page's rows
HarvestFetch ==
    /\ pc = "fetch"
    /\ ~PageCapReached(pages)
    /\ fetched' = Append(fetched, [offset |-> offset, src |-> offset_src])
    /\ LET page == fetch_page(offset)
           txs == page.txs
       IN  IF txs = <<>>
           THEN /\ pc' = "done"
                /\ UNCHANGED <<offset, pages, seeking, data, rows_to_write, stop, offset_src>>
           ELSE IF seeking /\ PageAfterWindow(txs)
           THEN /\ offset' = page.next
                /\ offset_src' = "next"
                /\ pages' = pages + 1
                /\ pc' = "fetch"
                /\ UNCHANGED <<seeking, data, rows_to_write, stop>>
           ELSE /\ seeking' = SeekingAfterHarvest(seeking)
                /\ data' = page
                /\ rows_to_write' = PageScan(txs).rows
                /\ stop' = PageScan(txs).stop
                /\ pc' = "write"
                /\ UNCHANGED <<offset, pages, offset_src>>
    /\ UNCHANGED <<envVars, fileVars, low, high, best, probes, runs_left, prev_exit, read_checkpoint,
                   latest_calls, done_pages>>
    /\ UNCHANGED <<hourly, writerVars, lcdVars, reqVars, txVars, amtVars, searchVars, urlVars>>

\* lines 113-121: the header goes before the rows of the first write
WritesHeader(rows) == rows # <<>> /\ ~header_written

\* a variant that loses the rows; C29_PageEventsInOrder does not hold of it
AppendRows_Lost(file, rows) == file

\* lines 116-123: the rows go to the end of the file, which is closed (and so
\* flushed) before write returns
AppendRows(file, rows) == file \o rows

\* lines 328-329, 112-123: writer.write(rows_to_write)
SinkAppend ==
    /\ pc = "write"
    /\ sink' = AppendRows(sink, rows_to_write)
    /\ headers' = IF WritesHeader(rows_to_write) THEN Append(headers, Len(sink)) ELSE headers
    /\ header_written' = (header_written \/ rows_to_write # <<>>)
    /\ pc' = "checkpoint"
    /\ UNCHANGED <<envVars, checkpoint, localVars, histVars>>
    /\ UNCHANGED <<hourly, lcdVars, reqVars, txVars, amtVars, searchVars, urlVars>>

\* lines 331-343, first half: offset = data.get("next"); write_text opens the
\* checkpoint file for writing, which empties it
CheckpointOpen ==
    /\ pc = "checkpoint"
    /\ offset' = data.next
    /\ offset_src' = "next"
    /\ checkpoint' = CorruptCheckpoint
    /\ pc' = "checkpoint_write"
    /\ UNCHANGED <<envVars, sink, pages, seeking, low, high, best, probes, data,
                   rows_to_write, stop, runs_left, prev_exit, read_checkpoint, latest_calls, fetched,
                   done_pages>>
    /\ UNCHANGED <<hourly, writerVars, lcdVars, reqVars, txVars, amtVars, searchVars, urlVars>>

\* lines 343-350, the payload reaches the file; then pages += 1 and the stop test
CheckpointWrite ==
    /\ pc = "checkpoint_write"
    /\ checkpoint' = checkpoint_payload(offset)
    /\ done_pages' = done_pages \cup SeqRange(data.txs)
    /\ pages' = pages + 1
    /\ pc' = IF stop THEN "done" ELSE "fetch"
    /\ UNCHANGED <<envVars, sink, offset, seeking, low, high, best, probes, data,
                   rows_to_write, stop, runs_left, prev_exit, read_checkpoint, latest_calls, fetched,
                   offset_src>>
    /\ UNCHANGED <<hourly, writerVars, lcdVars, reqVars, txVars, amtVars, searchVars, urlVars>>

\* a request exhausts its retries (FCDClient._request re-raises): the
\* exception leaves _collect_actions
FetchFails ==
    /\ pc \in {"latest", "probe", "fetch"}
    /\ pc = "probe" => probes < max_seek_pages
    /\ pc = "fetch" => ~PageCapReached(pages)
    /\ pc' = "raised"
    /\ UNCHANGED <<envVars, fileVars, localVars, histVars>>
    /\ UNCHANGED <<hourly, writerVars, lcdVars, reqVars, txVars, amtVars, searchVars, urlVars>>

\* the process is killed (and invoked again later); a kill during the sink
\* append may leave any proper prefix of the lines (header, rows) in the file
Kill ==
    /\ pc \in {"latest", "probe", "fetch", "write", "checkpoint", "checkpoint_write"}
    /\ runs_left > 0
    /\ pc' = "killed"
    /\ IF pc = "write"
       THEN \E k \in 0..Max(Len(rows_to_write) - 1, 0), h \in BOOLEAN :
                /\ h => WritesHeader(rows_to_write)
                /\ (k > 0 /\ WritesHeader(rows_to_write)) => h
                /\ sink' = sink \o SubSeq(rows_to_write, 1, k)
                /\ headers' = IF h THEN Append(headers, Len(sink)) ELSE headers
       ELSE UNCHANGED <<sink, headers>>
    /\ UNCHANGED header_written
    /\ UNCHANGED <<envVars, checkpoint, localVars, runs_left, prev_exit, read_checkpoint, latest_calls,
                   fetched, offset_src, done_pages>>
    /\ UNCHANGED <<hourly, lcdVars, reqVars, txVars, amtVars, searchVars, urlVars>>

(***************************************************************************)
(* The initial states: a time-ordered ledger, a window, the environment's  *)
(* start offset and the checkpoint file an earlier invocation (for this    *)
(* window or another) may have left.  The sink is empty.                   *)
(***************************************************************************)
ShapeCycle == <<"plain", "mixed", "void">>

LogOf(times, rot) ==
    [i \in 1..Len(times) |->
        [timestamp |-> times[i], shape |-> ShapeCycle[((i + rot) % 3) + 1]]]

TimeSeqs(n) ==
    {q \in [1..n -> Times] : \A i \in 1..(n - 1) : q[i] <= q[i + 1]}

TxLogs ==
    {LogOf(q, rot) : q \in UNION {TimeSeqs(n) : n \in {0, MaxTx}}, rot \in 0..2}

StoredOffsets == {None} \cup (1..MaxTx)

MatchingCheckpoints ==
    {[kind |-> "ok", window_start |-> start, window_end |-> end, offset |-> o] :
        o \in StoredOffsets}

StaleCheckpoints ==
    {[kind |-> "ok", window_start |-> start + 1, window_end |-> end, offset |-> 2],
     [kind |-> "ok", window_start |-> start, window_end |-> end + 1, offset |-> 2]}

\* TERRA_FCD_START_OFFSET unset (or empty), not an integer, or an integer
Unset == [kind |-> "unset", val |-> 0]
NotInt == [kind |-> "text", val |-> 0]
IntOffset(v) == [kind |-> "int", val |-> v]

\* <<start offset, checkpoint file, invocations>>: a fresh start is followed
\* through MaxRuns invocations, the other starts through one
Scenarios ==
    {<<Unset, NoCheckpoint, MaxRuns>>, <<NotInt, NoCheckpoint, 1>>}
        \cup {<<Unset, ck, 1>> : ck \in {CorruptCheckpoint}
                                     \cup MatchingCheckpoints \cup StaleCheckpoints}
        \cup {<<IntOffset(v), NoCheckpoint, 1>> : v \in {0, 2, MaxTx + 1}}
        \cup {<<IntOffset(MaxTx), ck, 1>> : ck \in MatchingCheckpoints}

InitLocals ==
    /\ pc = "idle"
    /\ offset = None /\ pages = 0 /\ seeking = TRUE
    /\ low = 0 /\ high = 0 /\ best = None /\ probes = 0
    /\ data = NoData /\ rows_to_write = <<>> /\ stop = FALSE
    /\ prev_exit = "none" /\ read_checkpoint = NoCheckpoint
    /\ latest_calls = 0 /\ fetched = <<>> /\ offset_src = "none"
    /\ done_pages = {}

\* line 110, and a sink file that is absent
InitWriter == header_written = FALSE /\ headers = <<>>

LcdIdle ==
    /\ blocks = <<0>> /\ target = 0
    /\ lcd_pc = "idle" /\ lcd_op = "none"
    /\ lcd_low = 1 /\ lcd_high = 1 /\ lcd_best = 1 /\ lcd_calls = 0

ReqIdle ==
    /\ retries = 1 /\ backoff = 0 /\ req_offset = None
    /\ req_pc = "idle" /\ attempt = 0 /\ http_gets = 0 /\ slept = <<>>

TxIdle ==
    /\ tx_in = [timestamp |-> 0, txhash |-> 0, msgs |-> <<>>, logs |-> <<>>,
                raw_log |-> [kind |-> "missing", logs |-> <<>>]]
    /\ tx_pc = "idle" /\ tx_out = <<>>

AmtIdle ==
    /\ amt_in = NoneText /\ amt_pc = "idle" /\ amt_out = NoNumber
    /\ uusd_pc = "idle" /\ uusd_out = NoNumber

UrlIdle ==
    /\ env_url = NoneText /\ base_urls = <<>> /\ rpc_urls = <<>>
    /\ url_op = "none" /\ url_pc = "idle" /\ url_index = 1
    /\ contacted = <<>> /\ calls_made = 0 /\ failed_urls = {}

SearchLocals ==
    /\ search_pc = "idle" /\ use_height = FALSE /\ height_events = <<>>
    /\ next_key = None /\ search_pages = 0 /\ search_rows = <<>> /\ requests = <<>>

SearchIdle ==
    /\ reverse = FALSE /\ start_time = 0 /\ end_time = 0 /\ height_filter = FALSE
    /\ lcd_max_pages = LcdMaxPages
    /\ SearchLocals

FcdIdle ==
    /\ txlog = <<>> /\ start = 0 /\ end = 0 /\ next_on_last = TRUE
    /\ manual_offset = Unset /\ max_seek_pages = MaxSeekPages
    /\ sink = <<>> /\ checkpoint = NoCheckpoint /\ runs_left = 0
    /\ InitLocals
    /\ InitWriter
    /\ hourly = Pending

Init ==
    /\ LcdIdle
    /\ SearchIdle
    /\ UrlIdle
    /\ ReqIdle
    /\ TxIdle
    /\ AmtIdle
    /\ txlog \in TxLogs
    /\ start \in Times /\ end \in Times /\ start <= end
    /\ next_on_last \in BOOLEAN
    /\ \E sc \in Scenarios :
           manual_offset = sc[1] /\ checkpoint = sc[2] /\ runs_left = sc[3]
    /\ max_seek_pages \in {1, MaxSeekPages}
    /\ manual_offset.kind = "int" => max_seek_pages = MaxSeekPages
    /\ sink = <<>>
    /\ InitLocals
    /\ InitWriter
    /\ hourly = Pending

vars == <<fcdVars, lcdVars, reqVars, txVars, amtVars, searchVars, urlVars>>

Next ==
    \/ Start
    \/ SeekLatest
    \/ SeekProbe
    \/ SeekEnd
    \/ HarvestCap
    \/ HarvestFetch
    \/ SinkAppend
    \/ CheckpointOpen
    \/ CheckpointWrite
    \/ FetchFails
    \/ Aggregate
    \/ Kill

Spec == Init /\ [][Next]_vars


(***************************************************************************)
(* The height searches.                                                    *)
(***************************************************************************)
latest_height == Len(blocks)

block_time(height) == blocks[height]

\* a variant that probes the low end of the range; C22_HeightSearchTerminates
\* does not hold of it
Midpoint_Low(lo, hi) == lo

\* lines 126 and 141: mid = (low + high) // 2
Midpoint(lo, hi) == (lo + hi) \div 2

\* a variant that passes over the blocks at the target time;
\* C21_LargestHeightAtOrBefore does not hold of it
BeforeAccepts_Strict(mid_time, t) == mid_time < t

\* line 128: if mid_time <= target
BeforeAccepts(mid_time, t) == mid_time <= t

\* a variant with the comparison of line 128; C8_CorrectSide does not hold of it
AfterAccepts_AsBefore(mid_time, t) == mid_time <= t

\* a variant that passes over the blocks at the target time;
\* C20_SmallestHeightAtOrAfter does not hold of it
AfterAccepts_Strict(mid_time, t) == mid_time > t

\* line 143: if mid_time >= target
AfterAccepts(mid_time, t) == mid_time >= t

\* lines 122-124
StartAtOrBefore ==
    /\ lcd_pc = "idle"
    /\ lcd_op' = "before"
    /\ lcd_low' = 1 /\ lcd_high' = latest_height /\ lcd_best' = 1
    /\ lcd_pc' = "before"
    /\ UNCHANGED <<blocks, target, lcd_calls>>
    /\ UNCHANGED <<fcdVars, reqVars, txVars, amtVars, searchVars, urlVars>>

\* lines 125-133: one iteration of the loop
ProbeAtOrBefore ==
    /\ lcd_pc = "before"
    /\ lcd_low <= lcd_high
    /\ lcd_calls' = lcd_calls + 1
    /\ LET mid == Midpoint(lcd_low, lcd_high)
       IN  IF BeforeAccepts(block_time(mid), target)
           THEN lcd_best' = mid /\ lcd_low' = mid + 1 /\ UNCHANGED lcd_high
           ELSE lcd_high' = mid - 1 /\ UNCHANGED <<lcd_low, lcd_best>>
    /\ UNCHANGED <<blocks, target, lcd_pc, lcd_op>>
    /\ UNCHANGED <<fcdVars, reqVars, txVars, amtVars, searchVars, urlVars>>

\* lines 137-139
StartAtOrAfter ==
    /\ lcd_pc = "idle"
    /\ lcd_op' = "after"
    /\ lcd_low' = 1 /\ lcd_high' = latest_height /\ lcd_best' = latest_height
    /\ lcd_pc' = "after"
    /\ UNCHANGED <<blocks, target, lcd_calls>>
    /\ UNCHANGED <<fcdVars, reqVars, txVars, amtVars, searchVars, urlVars>>

\* lines 140-148: one iteration of the loop
ProbeAtOrAfter ==
    /\ lcd_pc = "after"
    /\ lcd_low <= lcd_high
    /\ lcd_calls' = lcd_calls + 1
    /\ LET mid == Midpoint(lcd_low, lcd_high)
       IN  IF AfterAccepts(block_time(mid), target)
           THEN lcd_best' = mid /\ lcd_high' = mid - 1 /\ UNCHANGED lcd_low
           ELSE lcd_low' = mid + 1 /\ UNCHANGED <<lcd_high, lcd_best>>
    /\ UNCHANGED <<blocks, target, lcd_pc, lcd_op>>
    /\ UNCHANGED <<fcdVars, reqVars, txVars, amtVars, searchVars, urlVars>>

\* lines 134 and 149: return best
ReturnBest ==
    /\ lcd_pc \in {"before", "after"}
    /\ lcd_low > lcd_high
    /\ lcd_pc' = "returned"
    /\ UNCHANGED <<blocks, target, lcd_op, lcd_low, lcd_high, lcd_best, lcd_calls>>
    /\ UNCHANGED <<fcdVars, reqVars, txVars, amtVars, searchVars, urlVars>>

InitLCD ==
    /\ FcdIdle
    /\ SearchIdle
    /\ UrlIdle
    /\ ReqIdle
    /\ TxIdle
    /\ AmtIdle
    /\ blocks \in UNION {[1..h -> Times] : h \in 1..MaxHeight}
    /\ target \in Times
    /\ lcd_pc = "idle" /\ lcd_op = "none"
    /\ lcd_low = 1 /\ lcd_high = 1 /\ lcd_best = 1 /\ lcd_calls = 0

NextLCD ==
    \/ StartAtOrBefore
    \/ ProbeAtOrBefore
    \/ StartAtOrAfter
    \/ ProbeAtOrAfter
    \/ ReturnBest

SpecLCD == InitLCD /\ [][NextLCD]_vars

\* a search that was called runs on: each loop iteration and the return are
\* steps of one thread
SpecLCDFair == SpecLCD /\ WF_vars(NextLCD)

(***************************************************************************)
(* FCDClient._request: each step is one session.get with what follows it.  *)
(***************************************************************************)
\* lines 94-96: the request's parameters
fetch_params(off) ==
    IF off = None THEN {"account", "limit"} ELSE {"account", "limit", "offset"}

\* a variant that allows one attempt more; C10_BoundedAttempts does not hold of it
RetriesExhausted_Late(n, r) == n > r

\* line 89: if attempt >= self.retries: raise
RetriesExhausted(n, r) == n >= r

\* a variant that sleeps the same delay after every failure;
\* C23_BackoffDelays does not hold of it
BackoffDelay_Flat(b, k) == b

\* line 91: time.sleep(self.backoff * attempt)
BackoffDelay(b, k) == b * k

\* lines 93-97, 80-82: fetch_page calls _request
RequestCall ==
    /\ req_pc = "idle"
    /\ req_pc' = "try"
    /\ attempt' = 0
    /\ UNCHANGED <<retries, backoff, req_offset, http_gets, slept>>
    /\ UNCHANGED <<fcdVars, lcdVars, txVars, amtVars, searchVars, urlVars>>

\* lines 84-86: the attempt succeeds and its response is returned
AttemptSucceeds ==
    /\ req_pc = "try"
    /\ http_gets' = http_gets + 1
    /\ req_pc' = "returned"
    /\ UNCHANGED <<retries, backoff, req_offset, attempt, slept>>
    /\ UNCHANGED <<fcdVars, lcdVars, txVars, amtVars, searchVars, urlVars>>

\* lines 84-91: the attempt raises; re-raise or sleep and try again
AttemptFails ==
    /\ req_pc = "try"
    /\ http_gets' = http_gets + 1
    /\ attempt' = attempt + 1
    /\ IF RetriesExhausted(attempt', retries)
       THEN req_pc' = "raised" /\ UNCHANGED slept
       ELSE req_pc' = "try" /\ slept' = Append(slept, BackoffDelay(backoff, attempt'))
    /\ UNCHANGED <<retries, backoff, req_offset>>
    /\ UNCHANGED <<fcdVars, lcdVars, txVars, amtVars, searchVars, urlVars>>

InitReq ==
    /\ FcdIdle
    /\ SearchIdle
    /\ UrlIdle
    /\ LcdIdle
    /\ TxIdle
    /\ AmtIdle
    /\ retries \in (0 - 1)..MaxRetries
    /\ backoff \in 0..2
    /\ req_offset \in {None, 0, 1, 2}
    /\ req_pc = "idle" /\ attempt = 0 /\ http_gets = 0 /\ slept = <<>>

NextReq ==
    \/ RequestCall
    \/ AttemptSucceeds
    \/ AttemptFails

SpecReq == InitReq /\ [][NextReq]_vars

(***************************************************************************)
(* Action extraction on one raw record.  The records are built from the    *)
(* shapes the extraction distinguishes: messages with or without a sender, *)
(* logs absent (or empty) or holding an event, raw_log missing, empty,     *)
(* "[]", not JSON, a JSON list of logs, a JSON object, a JSON number or    *)
(* null; events and attributes with fields missing; amounts of every form  *)
(* _parse_amount distinguishes.                                            *)
(***************************************************************************)
AmountTexts ==
    {<<"5", "0">>, <<"7", "u", "u", "s", "d">>, <<"-", "5">>, <<"-", "3", "u", "u", "s", "d">>,
     <<"1", ".", "5">>, <<"x">>, <<>>}

MsgChoices ==
    {<<>>,
     <<[sender |-> "terra1a", from_address |-> NoneStr]>>,
     <<[sender |-> NoneStr, from_address |-> NoneStr],
       [sender |-> "", from_address |-> "terra1c"]>>}

EventChoices(a) ==
    {[type |-> "wasm", attributes |->
         <<Attr("action", "deposit_stable"), Attr("depositor", "terra1a"),
           Attr("deposit_amount", a)>>],
     [type |-> "execute_contract", attributes |->
         <<Attr("action", "redeem_stable"), Attr("redeemer", "terra1b"),
           Attr("redeem_amount", a)>>],
     \* no "type"
     [type |-> NoneStr, attributes |->
         <<Attr("action", "deposit_stable"), Attr("deposit_amount", a)>>],
     \* no "attributes"
     [type |-> "wasm", attributes |-> <<>>],
     \* attributes without "key", without "value"
     [type |-> "wasm", attributes |->
         <<Attr(NoneStr, NoneText), Attr("action", NoneStr), Attr("amount", a),
           Attr("action", "redeem_stable"), Attr("sender", NoneStr),
           Attr("amount", NoneText), Attr("returned_amount", a)>>]}

LogChoices(a) == {<<>>} \cup {<< <<e>> >> : e \in EventChoices(a)}

RawLogChoices(a) ==
    {[kind |-> k, logs |-> <<>>] :
        k \in {"missing", "empty", "brackets", "invalid", "object", "scalar"}}
        \cup {[kind |-> "list", logs |-> << <<e>> >>] : e \in EventChoices(a)}

TxRecords ==
    {[timestamp |-> 0, txhash |-> 1, msgs |-> m, logs |-> l, raw_log |-> r] :
        m \in MsgChoices,
        l \in UNION {LogChoices(a) : a \in AmountTexts},
        r \in UNION {RawLogChoices(a) : a \in {<<"5", "0">>, <<"-", "5">>}}}

\* lines 202-227: the rows are returned
ExtractReturns ==
    /\ tx_pc = "idle"
    /\ ~IterEventsRaises(tx_in)
    /\ tx_out' = _extract_actions(tx_in)
    /\ tx_pc' = "returned"
    /\ UNCHANGED <<tx_in, fcdVars, lcdVars, reqVars, amtVars, searchVars, urlVars>>

\* lines 206, 163-164: the exception of _iter_events leaves _extract_actions
ExtractRaises ==
    /\ tx_pc = "idle"
    /\ IterEventsRaises(tx_in)
    /\ tx_pc' = "raised"
    /\ UNCHANGED <<tx_in, tx_out, fcdVars, lcdVars, reqVars, amtVars, searchVars, urlVars>>

InitTx ==
    /\ FcdIdle
    /\ SearchIdle
    /\ UrlIdle
    /\ LcdIdle
    /\ ReqIdle
    /\ AmtIdle
    /\ tx_in \in TxRecords
    /\ tx_pc = "idle" /\ tx_out = <<>>

NextTx ==
    \/ ExtractReturns
    \/ ExtractRaises

SpecTx == InitTx /\ [][NextTx]_vars

(***************************************************************************)
(* _parse_amount on one value.  The texts are the concatenations of up to  *)
(* MaxParts pieces: digits, sign, point, blank, comma, a letter, the       *)
(* denomination uusd and a token of another denomination.                  *)
(***************************************************************************)
Ukrw == <<"u", "k", "r", "w">>

Pieces ==
    {<<"1">>, <<"5">>, <<".">>, <<"-">>, <<" ">>, <<",">>, <<"x">>, Uusd, <<"2">> \o Ukrw}

RECURSIVE Concat(_)
Concat(q) == IF q = <<>> THEN <<>> ELSE Head(q) \o Concat(Tail(q))

Texts == {Concat(q) : q \in UNION {[1..n -> Pieces] : n \in 0..MaxParts}}

\* lines 43-63
ParseAmount ==
    /\ amt_pc = "idle"
    /\ amt_out' = _parse_amount(StrOf(amt_in))
    /\ amt_pc' = "returned"
    /\ UNCHANGED <<amt_in, uusd_pc, uusd_out>>
    /\ UNCHANGED <<fcdVars, lcdVars, reqVars, txVars, searchVars, urlVars>>

InitAmt ==
    /\ FcdIdle
    /\ SearchIdle
    /\ UrlIdle
    /\ LcdIdle
    /\ ReqIdle
    /\ TxIdle
    /\ amt_in \in Texts \cup {NoneText}
    /\ amt_pc = "idle" /\ amt_out = NoNumber
    /\ uusd_pc = "idle" /\ uusd_out = NoNumber

NextAmt == ParseAmount

SpecAmt == InitAmt /\ [][NextAmt]_vars

\* pull_lcd.py lines 39-53
ParseUusd ==
    /\ uusd_pc = "idle"
    /\ uusd_pc' = _parse_uusd(amt_in).pc
    /\ uusd_out' = _parse_uusd(amt_in).out
    /\ UNCHANGED <<amt_in, amt_pc, amt_out>>
    /\ UNCHANGED <<fcdVars, lcdVars, reqVars, txVars, searchVars, urlVars>>

\* the numbers an event attribute or a message field can hold: 0, 5, 1.5
NumberValues == {<<NumberMark>> \o t : t \in {<<"0">>, <<"5">>, <<"1", ".", "5">>}}

\* both parsers are given the same value: None, a text or a number
InitParse ==
    /\ FcdIdle
    /\ SearchIdle
    /\ UrlIdle
    /\ LcdIdle
    /\ ReqIdle
    /\ TxIdle
    /\ amt_in \in Texts \cup {NoneText} \cup NumberValues
    /\ amt_pc = "idle" /\ amt_out = NoNumber
    /\ uusd_pc = "idle" /\ uusd_out = NoNumber

NextParse == ParseAmount \/ ParseUusd

SpecParse == InitParse /\ [][NextParse]_vars

(***************************************************************************)
(* Lines 313-326 of _collect_actions applied to one transaction whose one  *)
(* wasm event holds two action segments.  A segment is [action, sender,    *)
(* amount]; a sender of NoneStr or an amount of NoneText is a segment      *)
(* without a sender-alias or amount-alias attribute (it has an attribute   *)
(* under another key in its place), a sender of "" is one with an empty    *)
(* value.                                                                  *)
(***************************************************************************)
SegAttrs(seg) ==
    <<Attr("action", seg.action),
      IF seg.sender = NoneStr THEN Attr("depositor", "terra1z")
      ELSE Attr("sender", seg.sender),
      IF seg.amount = NoneText THEN Attr("mint_amount", <<"4">>)
      ELSE Attr("amount", seg.amount)>>

TxOf(msgs, attrs) ==
    [timestamp |-> 0, txhash |-> 1, msgs |-> msgs,
     logs |-> << <<[type |-> "wasm", attributes |-> attrs]>> >>,
     raw_log |-> [kind |-> "missing", logs |-> <<>>]]

SegChoices(actions) ==
    [action : actions, sender : {NoneStr, "", "terra1b"},
     amount : {NoneText, <<"5", "0">>, <<"x">>}]

\* lines 313-326: the rows of one transaction that go to rows_to_write
CollectRows ==
    /\ tx_pc = "idle"
    /\ ~IterEventsRaises(tx_in)
    /\ tx_out' = WalletRows(_extract_actions(tx_in), hour_of(tx_in.timestamp))
    /\ tx_pc' = "collected"
    /\ UNCHANGED <<tx_in, fcdVars, lcdVars, reqVars, amtVars, searchVars, urlVars>>

InitRows ==
    /\ FcdIdle
    /\ SearchIdle
    /\ UrlIdle
    /\ LcdIdle
    /\ ReqIdle
    /\ AmtIdle
    /\ tx_in \in {TxOf(m, SegAttrs(s1) \o SegAttrs(s2)) :
                     m \in MsgChoices,
                     s1 \in SegChoices({"deposit_stable"}),
                     s2 \in SegChoices({"redeem_stable", "send"})}
    /\ tx_pc = "idle" /\ tx_out = <<>>

NextRows == CollectRows

SpecRows == InitRows /\ [][NextRows]_vars

(***************************************************************************)
(* _event_segments applied to one event.  The attributes are drawn by name *)
(* from AttrNames; "sender?" and "amount?" are attributes without "value". *)
(***************************************************************************)
AttrNames ==
    {"market", "aust", "deposit", "redeem", "sender", "from", "sender?",
     "amount", "redeem_amount", "amount?", "memo"}

AttrOf(name) ==
    CASE name = "market" -> Attr("contract_address", "market")
      [] name = "aust" -> Attr("contract_address", "aust")
      [] name = "deposit" -> Attr("action", "deposit_stable")
      [] name = "redeem" -> Attr("action", "redeem_stable")
      [] name = "sender" -> Attr("sender", "terra1a")
      [] name = "from" -> Attr("from", "terra1b")
      [] name = "sender?" -> Attr("sender", NoneStr)
      [] name = "amount" -> Attr("amount", <<"5">>)
      [] name = "redeem_amount" -> Attr("redeem_amount", <<"7">>)
      [] name = "amount?" -> Attr("amount", NoneText)
      [] name = "memo" -> Attr("memo", "x")

\* lines 168-199: the segments are returned
SegmentEvent ==
    /\ tx_pc = "idle"
    /\ tx_out' = _event_segments(tx_in.logs[1][1])
    /\ tx_pc' = "segmented"
    /\ UNCHANGED <<tx_in, fcdVars, lcdVars, reqVars, amtVars, searchVars, urlVars>>

InitSeg ==
    /\ FcdIdle
    /\ SearchIdle
    /\ UrlIdle
    /\ LcdIdle
    /\ ReqIdle
    /\ AmtIdle
    /\ \E n \in 0..MaxAttrs : \E q \in [1..n -> AttrNames] :
           tx_in = TxOf(<<>>, [i \in 1..n |-> AttrOf(q[i])])
    /\ tx_pc = "idle" /\ tx_out = <<>>

NextSeg == SegmentEvent

SpecSeg == InitSeg /\ [][NextSeg]_vars

(***************************************************************************)
(* _aggregate_raw applied to a raw action log of up to MaxRows rows.       *)
(***************************************************************************)
AggRow(h, w, a, amt) ==
    [hour |-> h, wallet |-> w, action |-> a, amount |-> amt, txhash |-> 1]

AggRows ==
    {AggRow(0, "terra1a", "deposit_stable", [n |-> 5, d |-> 6]),
     AggRow(0, "terra1a", "deposit_stable", [n |-> 15, d |-> 1]),
     AggRow(TicksPerHour, "terra1a", "deposit_stable", [n |-> 5, d |-> 6]),
     AggRow(0, "terra1b", "deposit_stable", [n |-> 7, d |-> 6]),
     AggRow(0, "terra1a", "redeem_stable", [n |-> 3, d |-> 6]),
     AggRow(TicksPerHour, "terra1b", "redeem_stable", [n |-> 0 - 5, d |-> 0])}

InitAgg ==
    /\ LcdIdle
    /\ SearchIdle
    /\ UrlIdle
    /\ ReqIdle
    /\ TxIdle
    /\ AmtIdle
    /\ txlog = <<>> /\ next_on_last = TRUE
    /\ manual_offset = Unset /\ max_seek_pages = MaxSeekPages
    /\ checkpoint = NoCheckpoint /\ runs_left = 0
    /\ start \in Times /\ end \in Times /\ start <= end
    /\ sink \in UNION {[1..n -> AggRows] : n \in 0..MaxRows}
    /\ InitLocals
    /\ header_written = FALSE
    /\ headers = IF sink = <<>> THEN <<>> ELSE <<0>>
    /\ hourly = Pending

NextAgg == Aggregate

SpecAgg == InitAgg /\ [][NextAgg]_vars

(***************************************************************************)
(* LCDClient.__init__, _request, _request_rpc and block_time (pull_lcd.py  *)
(* lines 57-119).  A URL is a text over the letters a, b and the slash.    *)
(***************************************************************************)
DEFAULT_LCD_URLS == << <<"a">> >>
DEFAULT_RPC_URLS == << <<"r">> >>

RECURSIVE RStripSlash(_)
\* u.rstrip("/")
RStripSlash(text) ==
    IF text # <<>> /\ text[Len(text)] = "/"
    THEN RStripSlash(SubSeq(text, 1, Len(text) - 1))
    ELSE text

\* a variant that puts the defaults first; C24_FailoverInOrder does not hold
\* of it
UrlList_DefaultsFirst(env, defaults) ==
    LET urls == defaults \o (IF env # NoneText /\ env # <<>> THEN <<env>> ELSE <<>>)
    IN  [i \in 1..Len(urls) |-> RStripSlash(urls[i])]

\* lines 60-65 (and 67-72): the environment's URL, if any, then the defaults
UrlList(env, defaults) ==
    LET urls == (IF env # NoneText /\ env # <<>> THEN <<env>> ELSE <<>>) \o defaults
    IN  [i \in 1..Len(urls) |-> RStripSlash(urls[i])]

\* the list the loop is in
CurrentUrls == IF url_pc = "rpc" THEN rpc_urls ELSE base_urls

\* search_txs and latest_height call _request (line 79)
CallRequest ==
    /\ url_pc \in {"idle", "returned", "raised"}
    /\ calls_made < MaxCalls
    /\ calls_made' = calls_made + 1
    /\ url_op' = "request"
    /\ url_pc' = "lcd"
    /\ url_index' = 1
    /\ contacted' = <<>>
    /\ UNCHANGED <<env_url, base_urls, rpc_urls, failed_urls>>
    /\ UNCHANGED <<fcdVars, lcdVars, reqVars, txVars, amtVars, searchVars>>

\* lines 113-115: block_time calls _request
CallBlockTime ==
    /\ url_pc \in {"idle", "returned", "raised"}
    /\ calls_made < MaxCalls
    /\ calls_made' = calls_made + 1
    /\ url_op' = "block_time"
    /\ url_pc' = "lcd"
    /\ url_index' = 1
    /\ contacted' = <<>>
    /\ UNCHANGED <<env_url, base_urls, rpc_urls, failed_urls>>
    /\ UNCHANGED <<fcdVars, lcdVars, reqVars, txVars, amtVars, searchVars>>

\* lines 81-86 (96-101): the URL answers and its response is returned
UrlSucceeds ==
    /\ url_pc \in {"lcd", "rpc"}
    /\ url_index <= Len(CurrentUrls)
    /\ contacted' = Append(contacted, [list |-> url_pc, index |-> url_index,
                                        url |-> CurrentUrls[url_index], ok |-> TRUE])
    /\ url_pc' = "returned"
    /\ UNCHANGED <<env_url, base_urls, rpc_urls, url_op, url_index, calls_made, failed_urls>>
    /\ UNCHANGED <<fcdVars, lcdVars, reqVars, txVars, amtVars, searchVars>>

\* lines 81-90 (96-105): the URL fails; the loop goes on to the next URL, or
\* ends and RuntimeError is raised, which block_time catches once (lines
\* 116-119) to go through the RPC URLs
UrlFails ==
    /\ url_pc \in {"lcd", "rpc"}
    /\ url_index <= Len(CurrentUrls)
    /\ contacted' = Append(contacted, [list |-> url_pc, index |-> url_index,
                                        url |-> CurrentUrls[url_index], ok |-> FALSE])
    /\ failed_urls' = failed_urls \cup {CurrentUrls[url_index]}
    /\ IF url_index + 1 <= Len(CurrentUrls)
       THEN url_index' = url_index + 1 /\ UNCHANGED url_pc
       ELSE IF url_op = "block_time" /\ url_pc = "lcd"
            THEN url_pc' = "rpc" /\ url_index' = 1
            ELSE url_pc' = "raised" /\ UNCHANGED url_index
    /\ UNCHANGED <<env_url, base_urls, rpc_urls, url_op, calls_made>>
    /\ UNCHANGED <<fcdVars, lcdVars, reqVars, txVars, amtVars, searchVars>>

EnvUrls == {NoneText, <<>>, <<"b">>, <<"b", "/">>, <<"a">>, <<"a", "/", "/">>, <<"/">>}

\* a client as __init__ builds it from TERRA_LCD_URL (TERRA_RPC_URL unset)
InitUrl ==
    /\ FcdIdle
    /\ LcdIdle
    /\ SearchIdle
    /\ ReqIdle
    /\ TxIdle
    /\ AmtIdle
    /\ env_url \in EnvUrls
    /\ base_urls = UrlList(env_url, DEFAULT_LCD_URLS)
    /\ rpc_urls = UrlList(NoneText, DEFAULT_RPC_URLS)
    /\ url_op = "none" /\ url_pc = "idle" /\ url_index = 1
    /\ contacted = <<>> /\ calls_made = 0 /\ failed_urls = {}

NextUrl ==
    \/ CallRequest
    \/ CallBlockTime
    \/ UrlSucceeds
    \/ UrlFails

SpecUrl == InitUrl /\ [][NextUrl]_vars

(***************************************************************************)
(* LCDClient.search_txs (pull_lcd.py lines 151-215).                       *)
(***************************************************************************)
RECURSIVE HeightAtOrAfter(_, _, _, _)
\* lines 140-149
HeightAtOrAfter(low_, high_, best_, t) ==
    IF low_ > high_ THEN best_
    ELSE LET mid == Midpoint(low_, high_)
         IN  IF AfterAccepts(block_time(mid), t)
             THEN HeightAtOrAfter(low_, mid - 1, mid, t)
             ELSE HeightAtOrAfter(mid + 1, high_, best_, t)

\* lines 136-139
find_height_at_or_after(t) == HeightAtOrAfter(1, latest_height, latest_height, t)

RECURSIVE HeightAtOrBefore(_, _, _, _)
\* lines 125-134
HeightAtOrBefore(low_, high_, best_, t) ==
    IF low_ > high_ THEN best_
    ELSE LET mid == Midpoint(low_, high_)
         IN  IF BeforeAccepts(block_time(mid), t)
             THEN HeightAtOrBefore(mid + 1, high_, mid, t)
             ELSE HeightAtOrBefore(low_, mid - 1, best_, t)

\* lines 121-124
find_height_at_or_before(t) == HeightAtOrBefore(1, latest_height, 1, t)

Reversed(q) == [i \in 1..Len(q) |-> q[Len(q) + 1 - i]]

\* the endpoint: the transactions that match the request's predicates, in
\* the request's order
Matching(with_height) ==
    LET all == [h \in 1..latest_height |-> h]
        kept == IF with_height
                THEN SelectSeq(all, LAMBDA h : height_events[1] <= h /\ h <= height_events[2])
                ELSE all
    IN  IF reverse THEN Reversed(kept) ELSE kept

\* the endpoint's answer to the request of lines 180-188; a pagination key is
\* the position of the next page's first transaction
txs_page(with_height, key) ==
    LET all == Matching(with_height)
        from == IF key = None THEN 1 ELSE key
        to == Min(from + PageLimit - 1, Len(all))
    IN  [tx_responses |-> SubSeq(all, from, to),
         next_key |-> IF to < Len(all) THEN to + 1 ELSE None]

RECURSIVE ScanTxs(_)
\* lines 200-206: rows |-> the transactions appended, ret |-> return rows
ScanTxs(txs) ==
    IF txs = <<>> THEN [rows |-> <<>>, ret |-> FALSE]
    ELSE LET ts == block_time(Head(txs))
         IN  IF ts < start_time \/ ts > end_time
             THEN IF reverse /\ ts < start_time
                  THEN [rows |-> <<>>, ret |-> TRUE]
                  ELSE ScanTxs(Tail(txs))
             ELSE LET rest == ScanTxs(Tail(txs))
                  IN  [rows |-> <<Head(txs)>> \o rest.rows, ret |-> rest.ret]

\* lines 159-165
SearchCall ==
    /\ search_pc = "idle"
    /\ search_rows' = <<>> /\ next_key' = None /\ search_pages' = 0
    /\ use_height' = height_filter
    /\ height_events' = <<>>
    /\ search_pc' = IF height_filter THEN "lookup" ELSE "request"
    /\ UNCHANGED <<reverse, start_time, end_time, height_filter, lcd_max_pages, requests>>
    /\ UNCHANGED <<fcdVars, lcdVars, reqVars, txVars, amtVars, urlVars>>

\* lines 166-174: both heights are found
HeightLookup ==
    /\ search_pc = "lookup"
    /\ height_events' = <<find_height_at_or_after(start_time),
                          find_height_at_or_before(end_time)>>
    /\ search_pc' = "request"
    /\ UNCHANGED <<reverse, start_time, end_time, height_filter, lcd_max_pages, use_height,
                   next_key,
                   search_pages, search_rows, requests>>
    /\ UNCHANGED <<fcdVars, lcdVars, reqVars, txVars, amtVars, urlVars>>

\* lines 175-177: a request of the height lookup raises
HeightLookupRaises ==
    /\ search_pc = "lookup"
    /\ use_height' = FALSE
    /\ search_pc' = "request"
    /\ UNCHANGED <<reverse, start_time, end_time, height_filter, lcd_max_pages, height_events,
                   next_key,
                   search_pages, search_rows, requests>>
    /\ UNCHANGED <<fcdVars, lcdVars, reqVars, txVars, amtVars, urlVars>>

\* line 191: if use_height and "tx.height" in str(exc)
FallsBack(with_height, mentions_height) == with_height /\ mentions_height

\* a variant that allows one page more; C39_SearchInWindow does not hold of it
LcdCapReached_Late(n, cap) == n > cap

\* line 211: pages >= self.max_pages, tested after the page has been read
LcdCapReached(n, cap) == n >= cap

\* lines 189-190, 196-213: the request returns a page
PageReturned ==
    /\ search_pc = "request"
    /\ LET resp == txs_page(use_height, next_key)
           scan == ScanTxs(resp.tx_responses)
       IN  /\ requests' = Append(requests, [use_height |-> use_height, key |-> next_key,
                                            outcome |-> "ok"])
           /\ IF resp.tx_responses = <<>>
              THEN search_pc' = "returned" /\ UNCHANGED <<next_key, search_pages, search_rows>>
              ELSE /\ search_rows' = search_rows \o scan.rows
                   /\ IF scan.ret
                      THEN search_pc' = "returned" /\ UNCHANGED <<next_key, search_pages>>
                      ELSE /\ next_key' = resp.next_key
                           /\ search_pages' = search_pages + 1
                           /\ search_pc' = IF next_key' = None
                                               \/ LcdCapReached(search_pages', lcd_max_pages)
                                            THEN "returned" ELSE "request"
    /\ UNCHANGED <<reverse, start_time, end_time, height_filter, lcd_max_pages, use_height,
                   height_events>>
    /\ UNCHANGED <<fcdVars, lcdVars, reqVars, txVars, amtVars, urlVars>>

\* lines 189-195: the request fails at every base URL; the text of the last
\* error names the request's URL (and with it the tx.height predicates the
\* request carried) or does not
PageFails ==
    /\ search_pc = "request"
    /\ \E mentions_height \in BOOLEAN :
           /\ mentions_height => use_height
           /\ IF FallsBack(use_height, mentions_height)
              THEN /\ use_height' = FALSE
                   /\ next_key' = None
                   /\ search_pc' = "request"
                   /\ requests' = Append(requests, [use_height |-> use_height, key |-> next_key,
                                                    outcome |-> "rejected"])
              ELSE /\ search_pc' = "raised"
                   /\ requests' = Append(requests, [use_height |-> use_height, key |-> next_key,
                                                    outcome |-> "raised"])
                   /\ UNCHANGED <<use_height, next_key>>
    /\ UNCHANGED <<reverse, start_time, end_time, height_filter, lcd_max_pages, height_events,
                   search_pages,
                   search_rows>>
    /\ UNCHANGED <<fcdVars, lcdVars, reqVars, txVars, amtVars, urlVars>>

\* a chain whose block times do not decrease, and the search's arguments
InitSearch ==
    /\ FcdIdle
    /\ UrlIdle
    /\ ReqIdle
    /\ TxIdle
    /\ AmtIdle
    /\ blocks \in {q \in UNION {[1..h -> Times] : h \in 1..MaxHeight} :
                       \A i \in 1..(Len(q) - 1) : q[i] <= q[i + 1]}
    /\ target = 0
    /\ lcd_pc = "idle" /\ lcd_op = "none"
    /\ lcd_low = 1 /\ lcd_high = 1 /\ lcd_best = 1 /\ lcd_calls = 0
    /\ reverse \in BOOLEAN /\ height_filter \in BOOLEAN
    /\ start_time \in Times /\ end_time \in Times /\ start_time <= end_time
    /\ lcd_max_pages \in 0..LcdMaxPages
    /\ SearchLocals

NextSearch ==
    \/ SearchCall
    \/ HeightLookup
    \/ HeightLookupRaises
    \/ PageReturned
    \/ PageFails

SpecSearch == InitSearch /\ [][NextSearch]_vars

(***************************************************************************)
(* The harvester on the ledgers of MaxTx - 1 transactions.  On a short     *)
(* ledger the seek may end without an offset although a page lies within   *)
(* the window: the harvest loop then starts SEEKING at the head of the     *)
(* log.                                                                    *)
(***************************************************************************)
\* the starts that seek: no start offset that is an integer, no checkpoint
\* that can be read
ShortScenarios ==
    {<<Unset, NoCheckpoint, MaxRuns>>, <<NotInt, NoCheckpoint, 1>>, <<Unset, CorruptCheckpoint, 1>>}

InitShort ==
    /\ LcdIdle
    /\ SearchIdle
    /\ UrlIdle
    /\ ReqIdle
    /\ TxIdle
    /\ AmtIdle
    /\ txlog \in {LogOf(q, rot) : q \in TimeSeqs(MaxTx - 1), rot \in 0..2}
    /\ start \in Times /\ end \in Times /\ start <= end
    /\ next_on_last \in BOOLEAN
    /\ \E sc \in ShortScenarios :
           manual_offset = sc[1] /\ checkpoint = sc[2] /\ runs_left = sc[3]
    /\ max_seek_pages \in {1, MaxSeekPages}
    /\ sink = <<>>
    /\ InitLocals
    /\ InitWriter
    /\ hourly = Pending

SpecShort == InitShort /\ [][Next]_vars

\* a fresh start, followed through MaxRuns invocations, and the starts with
\* an integer start offset over a checkpoint for the same window
ManualScenarios ==
    {<<Unset, NoCheckpoint, MaxRuns>>}
        \cup {<<IntOffset(v), ck, 1>> : v \in {0, 2, MaxTx}, ck \in MatchingCheckpoints}

InitManual ==
    /\ LcdIdle
    /\ SearchIdle
    /\ UrlIdle
    /\ ReqIdle
    /\ TxIdle
    /\ AmtIdle
    /\ txlog \in {LogOf(q, rot) : q \in TimeSeqs(MaxTx - 1), rot \in 0..2}
    /\ start \in Times /\ end \in Times /\ start <= end
    /\ next_on_last \in BOOLEAN
    /\ \E sc \in ManualScenarios :
           manual_offset = sc[1] /\ checkpoint = sc[2] /\ runs_left = sc[3]
    /\ max_seek_pages = MaxSeekPages
    /\ sink = <<>>
    /\ InitLocals
    /\ InitWriter
    /\ hourly = Pending

SpecManual == InitManual /\ [][Next]_vars

(***************************************************************************)
(* The harvester on the ledgers of MaxTx - 2 transactions whose timestamps *)
(* are in any order: the loop takes the pages as the service returns them. *)
(***************************************************************************)
InitAnyOrder ==
    /\ LcdIdle
    /\ SearchIdle
    /\ UrlIdle
    /\ ReqIdle
    /\ TxIdle
    /\ AmtIdle
    /\ txlog \in {LogOf(q, rot) : q \in [1..(MaxTx - 2) -> Times], rot \in 0..2}
    /\ start \in Times /\ end \in Times /\ start <= end
    /\ next_on_last \in BOOLEAN
    /\ \E sc \in ShortScenarios :
           manual_offset = sc[1] /\ checkpoint = sc[2] /\ runs_left = sc[3]
    /\ max_seek_pages \in {1, MaxSeekPages}
    /\ sink = <<>>
    /\ InitLocals
    /\ InitWriter
    /\ hourly = Pending

SpecAnyOrder == InitAnyOrder /\ [][Next]_vars

(***************************************************************************)
(* The offset seek of _collect_actions (pull_fcd.py lines 260-283) alone,  *)
(* on every time-ordered ledger of up to MaxTx transactions: a first       *)
(* invocation without start offset and without checkpoint, followed up to  *)
(* the end of the seek.                                                    *)
(***************************************************************************)
InitSeek ==
    /\ LcdIdle
    /\ SearchIdle
    /\ UrlIdle
    /\ ReqIdle
    /\ TxIdle
    /\ AmtIdle
    /\ txlog \in {LogOf(q, rot) : q \in UNION {TimeSeqs(n) : n \in 0..MaxTx}, rot \in 0..2}
    /\ start \in Times /\ end \in Times /\ start <= end
    /\ next_on_last \in BOOLEAN
    /\ manual_offset = Unset /\ checkpoint = NoCheckpoint /\ runs_left = 1
    /\ max_seek_pages \in {1, MaxSeekPages}
    /\ sink = <<>>
    /\ InitLocals
    /\ InitWriter
    /\ hourly = Pending

NextSeek ==
    \/ Start
    \/ SeekLatest
    \/ SeekProbe
    \/ SeekEnd

SpecSeek == InitSeek /\ [][NextSeek]_vars

(***************************************************************************)
(* Helpers of the claims.                                                  *)
(***************************************************************************)
Count(q, x) == Cardinality({i \in 1..Len(q) : q[i] = x})

\* the rows of q are in the sink, each at least as often as in q
RowsIn(q) == \A i \in 1..Len(q) : Count(sink, q[i]) >= Count(q, q[i])

RECURSIVE WindowRows(_)
\* the rows of the in-window transactions with id <= n, newest first
WindowRows(n) ==
    IF n = 0 THEN <<>>
    ELSE (IF InWindow(ts_of(n)) THEN TxRows(n) ELSE <<>>) \o WindowRows(n - 1)

Running == pc \in {"latest", "probe", "fetch", "write", "checkpoint", "checkpoint_write"}
Harvesting == pc \in {"fetch", "write", "checkpoint", "checkpoint_write"}

\* this run read a checkpoint written for the requested window, and no
\* integer start offset overrides it
ResumedRun ==
    /\ pc # "idle"
    /\ ~ManualApplies(manual_offset)
    /\ CheckpointMatches(read_checkpoint)

(***************************************************************************)
(* C1.  Every row appended to the sink has start <= hour <= end, for every *)
(* window, hour-aligned or not.  (Violated: the hour of an in-window       *)
(* timestamp lies before a start that is not hour-aligned.)                *)
(***************************************************************************)
C1_HourWithinWindow ==
    \A i \in 1..Len(sink) : start <= sink[i].hour /\ sink[i].hour <= end

StaleRun ==
    /\ pc # "idle"
    /\ manual_offset.kind = "unset"
    /\ read_checkpoint.kind = "ok"
    /\ ~(read_checkpoint.window_start = start /\ read_checkpoint.window_end = end)

C3_StaleCheckpointIgnored ==
    StaleRun =>
        /\ offset_src # "checkpoint"
        /\ \A i \in 1..Len(fetched) : fetched[i].src # "checkpoint"
        /\ (Harvesting \/ pc \in {"probe", "done"}) => latest_calls = 1
        /\ Harvesting => probes >= 1
        /\ pc = "done" => (probes >= 1 \/ Len(txlog) = 0)

C3_Witness ==
    /\ StaleRun
    /\ pc = "write"
    /\ offset_src = "seek"
    /\ offset = read_checkpoint.offset
    /\ rows_to_write # <<>>

(***************************************************************************)
(* C4.  At the end of a run resumed from the checkpoint of page k (a run   *)
(* that ended on an empty page or at the window start, not at the page     *)
(* cap), the sink holds every action of every in-window transaction that   *)
(* is not newer than the checkpointed pages: no page after k was skipped.  *)
(***************************************************************************)
C4_NoGapAfterResume ==
    (ResumedRun /\ pc = "done" /\ pages < MaxPages) =>
        \A id \in Ids :
            (InWindow(ts_of(id)) /\ \E d \in done_pages : id <= d) => RowsIn(TxRows(id))

C4_Witness ==
    /\ ResumedRun
    /\ prev_exit = "killed"
    /\ Truthy(read_checkpoint.offset)
    /\ pc = "done"
    /\ pages = 1
    /\ \E id \in Ids : /\ id < read_checkpoint.offset
                       /\ InWindow(ts_of(id))
                       /\ TxRows(id) # <<>>
                       /\ RowsIn(TxRows(id))

(***************************************************************************)
(* C5.  In a run invoked after a kill, no row is appended for a            *)
(* transaction of a page whose checkpoint had already been written: only   *)
(* the page that was being processed at the kill can be duplicated.        *)
(* Stated for ledgers whose every non-empty page carries a continuation    *)
(* offset.  (Violated: a kill during the checkpoint write leaves a file    *)
(* that does not decode, and the next run harvests from the window end     *)
(* again.)                                                                 *)
(***************************************************************************)
C5_DuplicatesOnlyInterruptedPage ==
    [][(next_on_last /\ prev_exit = "killed" /\ pc = "write" /\ pc' = "checkpoint") =>
          \A i \in 1..Len(rows_to_write) : rows_to_write[i].txhash \notin done_pages]_vars

(***************************************************************************)
(* C6.  An uninterrupted run that starts with an empty sink and no         *)
(* checkpoint leaves in the sink exactly the rows of the in-window         *)
(* transactions (recognized action, parseable amount, resolvable wallet),  *)
(* each exactly once.  (Violated: the seek starts the harvest below a      *)
(* transaction of the window, or the harvest loop starts again at the head *)
(* of the ledger after a last page without continuation offset.)           *)
(***************************************************************************)
FreshRun ==
    /\ pc # "idle"
    /\ prev_exit = "none"
    /\ ~ManualApplies(manual_offset)
    /\ read_checkpoint.kind = "absent"

C6_ExactlyTheWindowRows ==
    (FreshRun /\ pc = "done") =>
        \A r \in SeqRange(sink) \cup SeqRange(WindowRows(Len(txlog))) :
            Count(sink, r) = Count(WindowRows(Len(txlog)), r)

(***************************************************************************)
(* C7.  The offset seek issues no probe once its range has collapsed       *)
(* (low > high).  (Violated: the loop always runs max_seek_pages times.)   *)
(***************************************************************************)
C7_NoProbeAfterCollapse ==
    [][(pc = "probe" /\ probes' = probes + 1) => low <= high]_vars

(***************************************************************************)
(* C9.  With an integer start offset in the environment a run performs no  *)
(* seek (no latest_id call, no probe, no seeking-page skip) and its first  *)
(* harvest fetch is issued at exactly that offset.                         *)
(***************************************************************************)
C9_ManualOffsetSkipsSeek ==
    (manual_offset.kind = "int" /\ pc # "idle") =>
        /\ latest_calls = 0
        /\ probes = 0
        /\ pc \notin {"latest", "probe"}
        /\ ~seeking
        /\ fetched # <<>> => fetched[1] = [offset |-> manual_offset.val, src |-> "manual"]
        /\ \A i \in 2..Len(fetched) : fetched[i].src = "next"
        /\ (pc = "done" /\ Len(txlog) > 0 /\ MaxPages > 0) => fetched # <<>>

C9_Witness ==
    /\ manual_offset.kind = "int"
    /\ CheckpointMatches(read_checkpoint)
    /\ read_checkpoint.offset # manual_offset.val
    /\ pc = "write"
    /\ Len(fetched) = 1
    /\ rows_to_write # <<>>

(***************************************************************************)
(* C8, as stated.  On a chain whose block time does not decrease with the  *)
(* height, for every target, find_height_at_or_after returns a height      *)
(* whose block time is >= target and find_height_at_or_before one whose    *)
(* block time is <= target.                                                *)
(***************************************************************************)
Monotone == \A h \in 1..(Len(blocks) - 1) : blocks[h] <= blocks[h + 1]

C8_CorrectSide_Original ==
    (lcd_pc = "returned" /\ Monotone) =>
        /\ lcd_op = "after" => blocks[lcd_best] >= target
        /\ lcd_op = "before" => blocks[lcd_best] <= target

(***************************************************************************)
(* C8, amended.  On such a chain find_height_at_or_after returns a height  *)
(* whose block time is >= target when some block has such a time, and the  *)
(* latest height otherwise (target later than every block);                *)
(* find_height_at_or_before returns a height whose block time is <= target *)
(* when some block has such a time, and height 1 otherwise (target earlier *)
(* than block 1).                                                          *)
(***************************************************************************)
C8_CorrectSide ==
    (lcd_pc = "returned" /\ Monotone) =>
        /\ lcd_op = "after" =>
              IF \E h \in 1..Len(blocks) : blocks[h] >= target
              THEN blocks[lcd_best] >= target
              ELSE lcd_best = Len(blocks)
        /\ lcd_op = "before" =>
              IF \E h \in 1..Len(blocks) : blocks[h] <= target
              THEN blocks[lcd_best] <= target
              ELSE lcd_best = 1

C8_Witness ==
    /\ lcd_pc = "returned"
    /\ Monotone
    /\ lcd_op = "after"
    /\ 1 < lcd_best /\ lcd_best < Len(blocks)
    /\ blocks[lcd_best] > target
    /\ blocks[1] < target

(***************************************************************************)
(* C10.  One _request issues a bounded number of HTTP attempts: a          *)
(* successful attempt is returned at once, a failed attempt is followed by *)
(* another while fewer than retries attempts have failed, and the error is *)
(* re-raised once retries attempts have failed: exactly retries attempts   *)
(* when all fail, and one attempt when retries is below 1.                 *)
(***************************************************************************)
AttemptBound == IF retries >= 1 THEN retries ELSE 1

C10_BoundedAttempts ==
    /\ http_gets <= AttemptBound
    /\ req_pc = "try" => (http_gets = attempt /\ attempt < AttemptBound)
    /\ req_pc = "returned" => (http_gets = attempt + 1 /\ attempt < AttemptBound)
    /\ req_pc = "raised" => (http_gets = attempt /\ attempt = AttemptBound)
    /\ Len(slept) = IF req_pc = "raised" THEN attempt - 1 ELSE attempt

C10_Witness ==
    /\ req_pc = "raised"
    /\ retries = MaxRetries
    /\ http_gets = MaxRetries
    /\ req_offset # None

(* C11.  The harvest loop terminates: every step of the loop lowers a      *)
(* measure that is a natural number (the pages left below max_pages, then  *)
(* the steps left within the page), so no run stays in the loop for ever.  *)
(* The loop ends done only on an empty page, after the page on which a     *)
(* transaction older than the window start was seen, or when the pages     *)
(* consulted (skipped and harvested) reach max_pages; the run raises only  *)
(* when a request does; and it fetches at most max_pages non-empty pages.  *)
(***************************************************************************)
NonEmptyFetches ==
    Cardinality({i \in 1..Len(fetched) : fetch_page(fetched[i].offset).txs # <<>>})

LoopMeasure ==
    IF ~Harvesting THEN 0
    ELSE 4 * (MaxPages - pages) + (CASE pc = "fetch" -> 4
                                     [] pc = "write" -> 3
                                     [] pc = "checkpoint" -> 2
                                     [] pc = "checkpoint_write" -> 1)

C11_HarvestTerminates ==
    /\ [](NonEmptyFetches <= MaxPages /\ LoopMeasure >= 0)
    /\ [][(Harvesting /\ (Harvesting' \/ pc' = "done")) => LoopMeasure' < LoopMeasure]_vars
    /\ [][(Harvesting /\ pc' = "done") =>
             \/ pc = "fetch" /\ pages < MaxPages /\ fetch_page(offset).txs = <<>>
             \/ pc = "checkpoint_write" /\ stop
             \/ pages' >= MaxPages]_vars
    /\ [][pc' = "raised" => FetchFails]_vars

C11_Witness ==
    /\ pc = "done"
    /\ pages = MaxPages
    /\ NonEmptyFetches = MaxPages
    /\ ~stop
    /\ sink # <<>>

(***************************************************************************)
(* C12.  Whenever the sink file is not empty it holds the header exactly   *)
(* once, as its first line, across invocations on the same sink path       *)
(* (after a kill, after a failed request, for a second account through the *)
(* same writer).                                                           *)
(***************************************************************************)
C12_HeaderExactlyOnce ==
    /\ SinkNonEmpty => headers = <<0>>
    /\ (pc \notin {"idle", "killed"} /\ SinkNonEmpty) => header_written

C12_Witness ==
    /\ prev_exit = "killed"
    /\ pc = "checkpoint"
    /\ rows_to_write # <<>>
    /\ Len(sink) > Len(rows_to_write)
    /\ headers = <<0>>

(***************************************************************************)
(* C13.  When a page fetch of the harvest loop fails for good, the error   *)
(* leaves _collect_actions; at that moment the checkpoint holds the        *)
(* continuation offset written for the last fully processed page and the   *)
(* sink holds exactly the rows of the fully processed pages; and the next  *)
(* invocation with the same window resumes from that checkpoint (no seek,  *)
(* first fetch at the stored offset).  Stated for a first invocation that  *)
(* raises and the invocation that follows it.  (Violated: after a last     *)
(* page without continuation offset the stored offset is null, the loop    *)
(* fetches again, and when that fetch fails the next invocation seeks.)    *)
(***************************************************************************)
RaisedInHarvest ==
    pc = "raised" /\ (~seeking \/ (latest_calls = 1 /\ probes >= max_seek_pages))

JustStarted ==
    pc \in {"latest", "fetch"} /\ latest_calls = 0 /\ fetched = <<>> /\ pages = 0

C13_FailedFetchKeepsResumePoint ==
    /\ (RaisedInHarvest /\ prev_exit = "none") =>
          /\ \A i \in 1..Len(sink) : sink[i].txhash \in done_pages
          /\ \A id \in done_pages : InWindow(ts_of(id)) => RowsIn(TxRows(id))
          /\ done_pages # {} => checkpoint = checkpoint_payload(offset)
    /\ (JustStarted /\ prev_exit = "raised" /\ done_pages # {}) =>
          /\ pc = "fetch"
          /\ ~seeking
          /\ offset = checkpoint.offset
          /\ offset_src = "checkpoint"

(***************************************************************************)
(* C14.  Action extraction never raises, whatever the shape of the raw     *)
(* record: it drops what it cannot parse and returns a list.  (Violated:   *)
(* a raw_log that is JSON but not a list.)                                 *)
(***************************************************************************)
C14_ExtractionNeverRaises == tx_pc # "raised"

(***************************************************************************)
(* C15, as stated.  _parse_amount maps a bare-digit string to its integer  *)
(* value divided by 1,000,000, a comma-separated list of <amount><denom>   *)
(* tokens to the amount of its uusd token divided by 1,000,000 wherever    *)
(* the token stands in the list, and every other input to no value.        *)
(***************************************************************************)
\* <amount><denom>: digits, then a denomination
IsToken(part) ==
    \E k \in 1..(Len(part) - 1) :
        /\ IsDigit(SubSeq(part, 1, k))
        /\ SubSeq(part, k + 1, Len(part)) \in {Uusd, Ukrw}

IsUusdToken(part) == IsToken(part) /\ EndsWith(part, Uusd)

\* a list of tokens, one of them in uusd
IsTokenList(text) ==
    /\ text # NoneText
    /\ text # <<>>
    /\ LET parts == SplitComma(text)
       IN  /\ \A i \in 1..Len(parts) : IsToken(parts[i])
           /\ \E i \in 1..Len(parts) : IsUusdToken(parts[i])

\* the amount of the first uusd token of a token list, in micro units
UusdAmount(text) ==
    LET parts == SplitComma(text)
        k == CHOOSE i \in 1..Len(parts) :
                 IsUusdToken(parts[i]) /\ \A j \in 1..(i - 1) : ~IsUusdToken(parts[j])
    IN  IntOf(SubSeq(parts[k], 1, Len(parts[k]) - 4))

IsBareDigits(text) == text # NoneText /\ IsDigit(text)

C15_ParseAmount_Original ==
    amt_pc = "returned" =>
        IF IsBareDigits(amt_in) THEN amt_out = [n |-> IntOf(amt_in), d |-> 6]
        ELSE IF IsTokenList(amt_in) THEN amt_out = [n |-> UusdAmount(amt_in), d |-> 6]
        ELSE amt_out = NoNumber

(***************************************************************************)
(* C15, amended.  Bare digits and token lists as stated; a text without    *)
(* "uusd" that is not bare digits yields the number float() reads from it, *)
(* not divided (a signed or decimal numeral, blanks around it allowed),    *)
(* and no value when float() rejects it; None and the empty text yield no  *)
(* value.                                                                  *)
(***************************************************************************)
C15_ParseAmount ==
    amt_pc = "returned" =>
        IF IsBareDigits(amt_in) THEN amt_out = [n |-> IntOf(amt_in), d |-> 6]
        ELSE IF IsTokenList(amt_in) THEN amt_out = [n |-> UusdAmount(amt_in), d |-> 6]
        ELSE IF amt_in = NoneText \/ amt_in = <<>> THEN amt_out = NoNumber
        ELSE ~Contains(amt_in, Uusd) => amt_out = FloatOf(amt_in)

C15_Witness ==
    /\ amt_pc = "returned"
    /\ amt_in = <<"2">> \o Ukrw \o <<",", "5">> \o Uusd
    /\ amt_out = [n |-> 5, d |-> 6]

(***************************************************************************)
(* C16.  Every row has amount >= 0, for every amount string the ledger can *)
(* carry, signed numerals and signed uusd tokens included.  (Violated: the *)
(* sign is read by float() and kept.)                                      *)
(***************************************************************************)
C16_AmountNonNegative ==
    tx_pc = "returned" =>
        \A i \in 1..Len(tx_out) : ~Falsy(tx_out[i].wallet) => tx_out[i].amount.n >= 0

(***************************************************************************)
(* C17: when main reaches its end with no action in the raw action log it  *)
(* writes neither hourly file and prints the diagnostic; when the raw      *)
(* action log holds at least one action it writes both files.              *)
(***************************************************************************)
C17_BothFilesOrDiagnostic ==
    hourly.kind # "pending" =>
        /\ sink = <<>> => hourly.kind = "diagnostic"
        /\ sink # <<>> => hourly.kind = "saved"

(***************************************************************************)
(* C18: search_txs degrades instead of failing.  After a height lookup     *)
(* that raised no request carries tx.height predicates; after a failed     *)
(* request that carried them the next request is for the first page and    *)
(* carries none; and the search raises only on a failed request that       *)
(* carried none.                                                           *)
(***************************************************************************)
C18_SearchDegrades ==
    /\ \A i \in 1..Len(requests) :
           (requests[i].use_height /\ requests[i].outcome # "ok") =>
               /\ requests[i].outcome = "rejected"
               /\ i < Len(requests) =>
                      ~requests[i + 1].use_height /\ requests[i + 1].key = None
    /\ search_pc = "raised" => ~requests[Len(requests)].use_height

(***************************************************************************)
(* C19: on a time-ordered ledger, when the seek's range has collapsed      *)
(* (low > high) by the end of its probes and some offset in [0, latest_id] *)
(* has a page whose newest transaction is not after the window end, the    *)
(* harvest starts at the largest such offset.                              *)
(***************************************************************************)
SeekTargets ==
    {o \in 0..latest_id : LET txs == fetch_page(o).txs
                          IN  txs # <<>> /\ ts_of(txs[1]) <= end}

SeekEnded == pc = "fetch" /\ latest_calls = 1 /\ probes >= max_seek_pages /\ fetched = <<>>

C19_SeekFindsLargestOffset ==
    (SeekEnded /\ low > high /\ SeekTargets # {}) =>
        /\ ~seeking
        /\ offset \in SeekTargets
        /\ \A o \in SeekTargets : o <= offset

(***************************************************************************)
(* C20: on a chain whose block times do not decrease with the height, when *)
(* some height in [1, latest] has a block time >= target,                  *)
(* find_height_at_or_after returns the smallest such height.               *)
(***************************************************************************)
C20_SmallestHeightAtOrAfter ==
    (/\ lcd_pc = "returned"
     /\ lcd_op = "after"
     /\ Monotone
     /\ \E h \in 1..latest_height : block_time(h) >= target) =>
        /\ lcd_best \in 1..latest_height
        /\ block_time(lcd_best) >= target
        /\ \A h \in 1..latest_height : block_time(h) >= target => lcd_best <= h

\* the search returned the first of two blocks at the target time, above a
\* block before it
C20_Witness ==
    /\ lcd_pc = "returned"
    /\ lcd_op = "after"
    /\ Monotone
    /\ 1 < lcd_best /\ lcd_best < latest_height
    /\ block_time(lcd_best - 1) < target
    /\ block_time(lcd_best) = target
    /\ block_time(lcd_best + 1) = target
    /\ lcd_calls >= 2

(***************************************************************************)
(* C21: on a chain whose block times do not decrease with the height, when *)
(* some height in [1, latest] has a block time <= target,                  *)
(* find_height_at_or_before returns the largest such height.               *)
(***************************************************************************)
C21_LargestHeightAtOrBefore ==
    (/\ lcd_pc = "returned"
     /\ lcd_op = "before"
     /\ Monotone
     /\ \E h \in 1..latest_height : block_time(h) <= target) =>
        /\ lcd_best \in 1..latest_height
        /\ block_time(lcd_best) <= target
        /\ \A h \in 1..latest_height : block_time(h) <= target => h <= lcd_best

\* the search returned the last of two blocks at the target time, below a
\* later block
C21_Witness ==
    /\ lcd_pc = "returned"
    /\ lcd_op = "before"
    /\ Monotone
    /\ 1 < lcd_best /\ lcd_best < latest_height
    /\ block_time(lcd_best - 1) = target
    /\ block_time(lcd_best) = target
    /\ block_time(lcd_best + 1) > target
    /\ lcd_calls >= 2

(***************************************************************************)
(* C22: for every latest height N >= 1 and every assignment of block times *)
(* both height searches terminate: every probe strictly shrinks the range  *)
(* [low, high] (to at most half its width), a search calls block_time at   *)
(* most floor(log2 N) + 1 times, and a search that was called returns.     *)
(***************************************************************************)
RECURSIVE Log2Floor(_)
Log2Floor(n) == IF n <= 1 THEN 0 ELSE 1 + Log2Floor(n \div 2)

RangeWidth == lcd_high - lcd_low + 1

InHeightSearch == lcd_pc \in {"before", "after"}

C22_HeightSearchTerminates ==
    /\ [](lcd_op # "none" => lcd_calls <= Log2Floor(latest_height) + 1)
    /\ [][(InHeightSearch /\ lcd_calls' # lcd_calls) =>
               /\ lcd_calls' = lcd_calls + 1
               /\ RangeWidth' < RangeWidth
               /\ 2 * RangeWidth' <= RangeWidth
               /\ RangeWidth' >= 0]_vars
    /\ InHeightSearch ~> lcd_pc = "returned"

\* a search on the longest chain that used its full allowance of probes
C22_Witness ==
    /\ lcd_pc = "returned"
    /\ latest_height = MaxHeight
    /\ ~Monotone
    /\ lcd_calls = Log2Floor(MaxHeight) + 1

(***************************************************************************)
(* C23: in FCDClient._request the delay slept after the k-th failed        *)
(* attempt, for k < retries, is backoff * k; no delay follows the final    *)
(* failed attempt (the one that is re-raised) or a successful attempt.     *)
(***************************************************************************)
C23_BackoffDelays ==
    /\ [](\A k \in 1..Len(slept) : slept[k] = backoff * k /\ k < retries)
    /\ [][(req_pc = "try" /\ attempt' = attempt + 1 /\ attempt' < retries) =>
               /\ req_pc' = "try"
               /\ slept' = Append(slept, backoff * attempt')]_vars
    /\ [][(req_pc = "try" /\ attempt' = attempt + 1 /\ attempt' >= retries) =>
               /\ req_pc' = "raised"
               /\ slept' = slept]_vars
    /\ [][(req_pc = "try" /\ req_pc' = "returned") => slept' = slept]_vars

\* every attempt failed: retries - 1 growing delays, none after the last
C23_Witness ==
    /\ req_pc = "raised"
    /\ retries = MaxRetries
    /\ backoff = 2
    /\ Len(slept) = MaxRetries - 1
    /\ slept[1] = 2
    /\ slept[Len(slept)] = 2 * (MaxRetries - 1)

(***************************************************************************)
(* C24, as stated.  Every LCDClient._request call tries the base URLs in   *)
(* list order from the first (the environment's URL before the defaults),  *)
(* each URL at most once, returns the first successful response without    *)
(* contacting a later URL, raises only after every URL has failed, and     *)
(* starts from the first URL whatever failed in earlier calls.             *)
(***************************************************************************)
LcdContacts == SelectSeq(contacted, LAMBDA c : c.list = "lcd")

EnvUrlSet == env_url # NoneText /\ env_url # <<>>

InListOrder ==
    /\ Len(LcdContacts) <= Len(base_urls)
    /\ \A i \in 1..Len(LcdContacts) :
           /\ LcdContacts[i].index = i
           /\ LcdContacts[i].url = base_urls[i]
           /\ i < Len(LcdContacts) => ~LcdContacts[i].ok

EnvironmentFirst ==
    /\ base_urls[Len(base_urls)] = DEFAULT_LCD_URLS[Len(DEFAULT_LCD_URLS)]
    /\ Len(base_urls) = Len(DEFAULT_LCD_URLS) + (IF EnvUrlSet THEN 1 ELSE 0)
    /\ EnvUrlSet => base_urls[1] = RStripSlash(env_url)

RaisesAfterAll ==
    /\ (url_op = "request" /\ url_pc = "returned") => LcdContacts[Len(LcdContacts)].ok
    /\ (url_pc = "raised" \/ url_pc = "rpc") =>
           /\ Len(LcdContacts) = Len(base_urls)
           /\ \A i \in 1..Len(LcdContacts) : ~LcdContacts[i].ok

C24_FailoverInOrder_Original ==
    url_op # "none" =>
        /\ InListOrder
        /\ EnvironmentFirst
        /\ RaisesAfterAll
        /\ \A i, j \in 1..Len(LcdContacts) : i # j => LcdContacts[i].url # LcdContacts[j].url

(***************************************************************************)
(* C24, amended.  As above, with each entry of the list tried at most      *)
(* once: the list holds the same URL twice when the environment's URL,     *)
(* without its trailing slashes, is one of the defaults, and that URL is   *)
(* then contacted twice by a call in which it fails.                       *)
(***************************************************************************)
C24_FailoverInOrder ==
    url_op # "none" =>
        /\ InListOrder
        /\ EnvironmentFirst
        /\ RaisesAfterAll
        /\ (\E i, j \in 1..Len(LcdContacts) : i # j /\ LcdContacts[i].url = LcdContacts[j].url)
               => RStripSlash(env_url) = DEFAULT_LCD_URLS[1]

\* the second call is answered by the first URL, the environment's, which
\* failed in the first call
C24_Witness ==
    /\ calls_made = 2
    /\ url_op = "request"
    /\ url_pc = "returned"
    /\ Len(base_urls) = 2
    /\ base_urls[1] # base_urls[2]
    /\ Len(contacted) = 1
    /\ contacted[1].ok
    /\ contacted[1].url = RStripSlash(env_url)
    /\ contacted[1].url \in failed_urls

(***************************************************************************)
(* C25: within one _collect_actions run the phase only moves forward,      *)
(* SEEKING -> HARVESTING -> DONE.  Once seeking is off it stays off, so a  *)
(* page is skipped as a seeking page only before any page was harvested;   *)
(* the sink and the checkpoint change only while HARVESTING; and after the *)
(* loop has exited the run fetches nothing and writes nothing.             *)
(***************************************************************************)
SameRun == runs_left' = runs_left

Exited == pc \in {"done", "raised", "killed"}

\* a step of the loop that skips the page it fetched
SkipsPage == pc = "fetch" /\ pc' = "fetch" /\ fetched' # fetched

C25_PhasesMoveForward ==
    /\ [][(SameRun /\ ~seeking) => ~seeking']_vars
    /\ [][SkipsPage => (seeking /\ seeking' /\ sink' = sink /\ checkpoint' = checkpoint)]_vars
    /\ [][(sink' # sink \/ headers' # headers \/ checkpoint' # checkpoint) =>
               (Harvesting /\ ~seeking)]_vars
    /\ [][(SameRun /\ Exited) =>
               /\ pc' = pc
               /\ UNCHANGED <<sink, headers, checkpoint, fetched, latest_calls, probes>>]_vars

\* a run that skipped the head page while SEEKING, harvested a later page
\* and is DONE
C25_Witness ==
    /\ pc = "done"
    /\ prev_exit = "none"
    /\ ~seeking
    /\ Len(fetched) >= 2
    /\ fetched[1].offset = None
    /\ Len(txlog) \notin done_pages
    /\ done_pages # {}
    /\ sink # <<>>

(***************************************************************************)
(* C26, as stated.  While SEEKING in the harvest loop a non-empty page is  *)
(* skipped (the offset moves to the page's continuation, nothing is        *)
(* emitted) exactly when its newest transaction is after the window end;   *)
(* the first page that is not skipped switches the loop to HARVESTING and  *)
(* is itself harvested.                                                    *)
(***************************************************************************)
\* the loop fetches a non-empty page while SEEKING
SeekingFetch ==
    /\ pc = "fetch"
    /\ fetched' # fetched
    /\ seeking
    /\ fetch_page(offset).txs # <<>>

\* the page fetched is skipped
Skipped ==
    /\ pc' = "fetch"
    /\ seeking'
    /\ offset' = fetch_page(offset).next
    /\ pages' = pages + 1
    /\ UNCHANGED <<sink, headers, checkpoint, rows_to_write>>

\* the page fetched is harvested: its rows are collected for the sink
Harvested ==
    /\ pc' = "write"
    /\ ~seeking'
    /\ data' = fetch_page(offset)
    /\ rows_to_write' = PageScan(fetch_page(offset).txs).rows

C26_SkipWhileSeeking_Original ==
    [][SeekingFetch =>
           IF ts_of(fetch_page(offset).txs[1]) > end THEN Skipped ELSE Harvested]_vars

(***************************************************************************)
(* C26, amended.  The page is skipped exactly when its oldest transaction  *)
(* is after the window end, that is when all of its transactions are; a    *)
(* page whose newest transaction is after the window end and whose oldest  *)
(* is not is harvested.                                                    *)
(***************************************************************************)
C26_SkipWhileSeeking ==
    [][SeekingFetch =>
           LET txs == fetch_page(offset).txs
           IN  IF ts_of(txs[Len(txs)]) > end THEN Skipped ELSE Harvested]_vars

\* the first page harvested by a run that started SEEKING at the head: its
\* newest transaction is after the window end, its oldest is not
C26_Witness ==
    /\ pc = "write"
    /\ prev_exit = "none"
    /\ probes > 0
    /\ fetched # <<>>
    /\ fetched[1].offset = None
    /\ done_pages = {}
    /\ ts_of(data.txs[1]) > end
    /\ ts_of(data.txs[Len(data.txs)]) <= end
    /\ rows_to_write # <<>>

(***************************************************************************)
(* C27: while HARVESTING, once a transaction with a timestamp before the   *)
(* window start is met, the transactions after it in the page are not      *)
(* examined (they add no row, whatever their timestamps), the page's rows  *)
(* and its checkpoint are still written, and the run fetches no further    *)
(* page.                                                                   *)
(***************************************************************************)
\* the position in txs of the first transaction before the window start, 0
\* if there is none
StopIndex(txs) ==
    IF \E i \in 1..Len(txs) : ts_of(txs[i]) < start
    THEN CHOOSE i \in 1..Len(txs) :
             /\ ts_of(txs[i]) < start
             /\ \A j \in 1..(i - 1) : ts_of(txs[j]) >= start
    ELSE 0

RECURSIVE RowsOf(_)
\* the rows of the transactions of txs that are within the window
RowsOf(txs) ==
    IF txs = <<>> THEN <<>>
    ELSE (IF InWindow(ts_of(Head(txs))) THEN TxRows(Head(txs)) ELSE <<>>) \o RowsOf(Tail(txs))

PageInHand == pc \in {"write", "checkpoint", "checkpoint_write"}

C27_StopAtWindowStart ==
    /\ [](PageInHand =>
             LET k == StopIndex(data.txs)
             IN  /\ stop = (k # 0)
                 /\ k # 0 => rows_to_write = RowsOf(SubSeq(data.txs, 1, k - 1)))
    /\ [][(pc = "write" /\ stop /\ pc' # "killed") =>
               (pc' = "checkpoint" /\ sink' = sink \o rows_to_write)]_vars
    /\ [][(pc = "checkpoint" /\ stop /\ pc' # "killed") => pc' = "checkpoint_write"]_vars
    /\ [][(pc = "checkpoint_write" /\ stop /\ pc' # "killed") =>
               (pc' = "done" /\ checkpoint' = checkpoint_payload(data.next))]_vars
    /\ [][(stop /\ SameRun) => fetched' = fetched]_vars

\* a run that stopped at the first transaction of a page whose second
\* transaction lies within the window and would have given rows
C27_Witness ==
    /\ pc = "done"
    /\ stop
    /\ StopIndex(data.txs) = 1
    /\ Len(data.txs) = 2
    /\ InWindow(ts_of(data.txs[2]))
    /\ TxRows(data.txs[2]) # <<>>
    /\ rows_to_write = <<>>
    /\ checkpoint = checkpoint_payload(data.next)

(***************************************************************************)
(* C28: after every harvested (non-empty, not skipped) page the checkpoint *)
(* is overwritten with that page's continuation offset and the requested   *)
(* window bounds, whether the page gave rows for the sink or none; a run   *)
(* writes as many checkpoints as it harvested pages (one fewer while the   *)
(* last harvested page is still in hand).                                  *)
(***************************************************************************)
\* the value of seeking when the run entered the harvest loop (lines 246-283)
SeekingAtLoop ==
    IF fetched # <<>> /\ fetched[1].src = "seek" THEN FALSE
    ELSE StartSeeking(manual_offset, read_checkpoint)

\* the page the i-th fetch of the loop returned
FetchedPage(i) == fetch_page(fetched[i].offset)

\* the fetches of the run whose page was skipped (lines 294-301)
SkippedFetches ==
    {i \in 1..Len(fetched) :
        /\ SeekingAtLoop
        /\ \A j \in 1..i : LET txs == FetchedPage(j).txs
                            IN  txs # <<>> /\ ts_of(txs[Len(txs)]) > end}

\* the fetches of the run whose page was harvested
HarvestedFetches ==
    {i \in 1..Len(fetched) : FetchedPage(i).txs # <<>>} \ SkippedFetches

\* pages counts the skipped pages (line 297) and the checkpoint writes (line 344)
CheckpointWrites == pages - Cardinality(SkippedFetches)

C28_CheckpointPerHarvestedPage ==
    /\ [][(pc = "checkpoint_write" /\ pc' # "killed") =>
               /\ checkpoint' = [kind |-> "ok", window_start |-> start, window_end |-> end,
                                 offset |-> FetchedPage(Len(fetched)).next]
               /\ pages' = pages + 1]_vars
    /\ [][(checkpoint' # checkpoint /\ checkpoint'.kind = "ok") =>
               (pc = "checkpoint_write" /\ Len(fetched) \in HarvestedFetches)]_vars
    /\ [](PageInHand => CheckpointWrites = Cardinality(HarvestedFetches) - 1)
    /\ [](pc \in {"latest", "probe", "fetch", "done", "raised"} =>
             CheckpointWrites = Cardinality(HarvestedFetches))
    /\ [](pc = "killed" =>
             Cardinality(HarvestedFetches) - CheckpointWrites \in {0, 1})

\* a run that skipped a page, harvested two and wrote two checkpoints, the
\* last one for a page that gave no row
C28_Witness ==
    /\ pc = "done"
    /\ SkippedFetches # {}
    /\ Cardinality(HarvestedFetches) = 2
    /\ CheckpointWrites = 2
    /\ rows_to_write = <<>>
    /\ sink # <<>>
    /\ checkpoint = [kind |-> "ok", window_start |-> start, window_end |-> end,
                     offset |-> data.next]

(***************************************************************************)
(* C29: for every harvested page k the events come in the order fetch(k),  *)
(* sink append of k's rows, checkpoint write for k, fetch(k+1): the        *)
(* checkpoint file is not touched for page k before k's rows are in the    *)
(* sink, and no page is fetched after k before the checkpoint holds k's    *)
(* continuation offset.                                                    *)
(***************************************************************************)
\* the rows of the page the last fetch returned
LastPageRows == PageScan(FetchedPage(Len(fetched)).txs).rows

\* the sink ends with the rows of the page the last fetch returned
LastPageRowsInSink ==
    LET rows == LastPageRows
    IN  /\ Len(sink) >= Len(rows)
        /\ SubSeq(sink, Len(sink) - Len(rows) + 1, Len(sink)) = rows

\* the checkpoint is the one of the page the last fetch returned
LastPageCheckpointed ==
    checkpoint = [kind |-> "ok", window_start |-> start, window_end |-> end,
                  offset |-> FetchedPage(Len(fetched)).next]

C29_PageEventsInOrder ==
    /\ [][sink' # sink =>
               /\ Len(fetched) \in HarvestedFetches
               /\ fetched' = fetched
               /\ checkpoint' = checkpoint
               /\ LET rows == LastPageRows
                  IN  \E k \in 0..Len(rows) : sink' = sink \o SubSeq(rows, 1, k)]_vars
    /\ [][checkpoint' # checkpoint =>
               /\ Len(fetched) \in HarvestedFetches
               /\ fetched' = fetched
               /\ sink' = sink
               /\ LastPageRowsInSink]_vars
    /\ [][(SameRun /\ fetched' # fetched /\ Len(fetched) \in HarvestedFetches) =>
               /\ LastPageRowsInSink
               /\ LastPageCheckpointed
               /\ fetched' = Append(fetched, [offset |-> FetchedPage(Len(fetched)).next,
                                              src |-> "next"])]_vars

\* the second page of a run is in hand: the rows of the first are in the
\* sink and its checkpoint is in the file
C29_Witness ==
    /\ pc = "write"
    /\ Len(fetched) = 2
    /\ HarvestedFetches = {1, 2}
    /\ PageScan(FetchedPage(1).txs).rows # <<>>
    /\ sink = PageScan(FetchedPage(1).txs).rows
    /\ rows_to_write # <<>>
    /\ checkpoint = [kind |-> "ok", window_start |-> start, window_end |-> end,
                     offset |-> fetched[2].offset]

(***************************************************************************)
(* C30.  Amount parsing never raises: for every value (None, the empty     *)
(* text, bare digits, denomination lists, a text that is not a numeral     *)
(* before a uusd suffix, numbers, any other text) _parse_amount and        *)
(* _parse_uusd both return a number or no value.  (Violated: _parse_uusd   *)
(* passes the text before "uusd" to float() with no handler.)              *)
(***************************************************************************)
C30_ParsingNeverRaises ==
    /\ amt_pc \in {"idle", "returned"}
    /\ uusd_pc \in {"idle", "returned"}

(***************************************************************************)
(* C31: every row that goes to the sink has a non-empty wallet, the        *)
(* segment's own sender if it has one and the transaction-level sender     *)
(* otherwise, and an amount; an action for which neither sender resolves   *)
(* is dropped, and the rows of the other action of the transaction are     *)
(* what they are without it.                                               *)
(***************************************************************************)
\* the row expected of one segment of a transaction with messages msgs, as
\* a sequence of zero or one rows
ExpectedRow(msgs, seg) ==
    LET own == seg.sender \notin {NoneStr, ""}
        txsender == IF msgs = <<>> THEN NoneStr
                    ELSE IF Len(msgs) = 1 THEN "terra1a" ELSE "terra1c"
    IN  IF /\ seg.action \in {"deposit_stable", "redeem_stable"}
           /\ seg.amount = <<"5", "0">>
           /\ (own \/ txsender # NoneStr)
        THEN <<[hour |-> 0, wallet |-> IF own THEN seg.sender ELSE txsender,
                action |-> seg.action, amount |-> [n |-> 50, d |-> 6], txhash |-> 1]>>
        ELSE <<>>

C31_RowsHaveWallet ==
    tx_pc = "collected" =>
        /\ \A i \in 1..Len(tx_out) :
               tx_out[i].wallet \notin {NoneStr, ""} /\ tx_out[i].amount # NoNumber
        /\ \E m \in MsgChoices, s1 \in SegChoices({"deposit_stable"}),
                 s2 \in SegChoices({"redeem_stable", "send"}) :
               /\ tx_in = TxOf(m, SegAttrs(s1) \o SegAttrs(s2))
               /\ tx_out = ExpectedRow(m, s1) \o ExpectedRow(m, s2)

\* no message names a sender; the first action has none of its own and is
\* dropped, the second has one and gives the only row
C31_Witness ==
    /\ tx_pc = "collected"
    /\ tx_in.msgs = <<>>
    /\ tx_in.logs[1][1].attributes =
           <<Attr("action", "deposit_stable"), Attr("depositor", "terra1z"),
             Attr("amount", <<"5", "0">>),
             Attr("action", "redeem_stable"), Attr("sender", "terra1b"),
             Attr("amount", <<"5", "0">>)>>
    /\ Len(tx_out) = 1
    /\ tx_out[1].action = "redeem_stable"
    /\ tx_out[1].wallet = "terra1b"

(***************************************************************************)
(* C32, as stated.  _event_segments yields one segment per attribute keyed *)
(* "action", in attribute order; segment i carries the contract address    *)
(* most recently seen before its marker and, as sender and amount, the     *)
(* first sender-alias and the first amount-alias attribute strictly        *)
(* between marker i and marker i+1 (none if absent); attributes before the *)
(* first marker belong to no segment and no value crosses into another     *)
(* segment.                                                                *)
(***************************************************************************)
\* the positions of the markers of attrs
Markers(attrs) == {p \in 1..Len(attrs) : attrs[p].key = "action"}

\* the position of the i-th marker
MarkerAt(attrs, i) ==
    CHOOSE p \in Markers(attrs) : Cardinality({q \in Markers(attrs) : q < p}) = i - 1

\* the positions strictly between the i-th marker and the next
SegmentSpan(attrs, i) ==
    {q \in (MarkerAt(attrs, i) + 1)..Len(attrs) :
        \A p \in Markers(attrs) : p > MarkerAt(attrs, i) => q < p}

\* the value at the least position of cands, none if there is no position
FirstValue(attrs, cands, none) ==
    IF cands = {} THEN none
    ELSE attrs[CHOOSE q \in cands : \A r \in cands : q <= r].value

\* the contract address most recently seen before position p
ContractBefore(attrs, p) ==
    LET cs == {q \in 1..(p - 1) : attrs[q].key = "contract_address"}
    IN  IF cs = {} THEN NoneStr
        ELSE attrs[CHOOSE q \in cs : \A r \in cs : r <= q].value

C32_Segments_Original ==
    tx_pc = "segmented" =>
        LET attrs == tx_in.logs[1][1].attributes
        IN  /\ Len(tx_out) = Cardinality(Markers(attrs))
            /\ \A i \in 1..Len(tx_out) :
                   LET span == SegmentSpan(attrs, i)
                   IN  /\ tx_out[i].action = attrs[MarkerAt(attrs, i)].value
                       /\ tx_out[i].contract_address =
                              ContractBefore(attrs, MarkerAt(attrs, i))
                       /\ tx_out[i].sender =
                              FirstValue(attrs, {q \in span : attrs[q].key \in SENDER_KEYS},
                                         NoneStr)
                       /\ tx_out[i].amount =
                              FirstValue(attrs, {q \in span : attrs[q].key \in AMOUNT_KEYS},
                                         NoneText)

(***************************************************************************)
(* C32, amended.  The sender and the amount of segment i are those of the  *)
(* first sender-alias and the first amount-alias attribute between the     *)
(* markers that carries a value: an attribute without a value is passed    *)
(* over and a later one of the segment is taken.                           *)
(***************************************************************************)
C32_Segments ==
    tx_pc = "segmented" =>
        LET attrs == tx_in.logs[1][1].attributes
        IN  /\ Len(tx_out) = Cardinality(Markers(attrs))
            /\ \A i \in 1..Len(tx_out) :
                   LET span == SegmentSpan(attrs, i)
                   IN  /\ tx_out[i].action = attrs[MarkerAt(attrs, i)].value
                       /\ tx_out[i].contract_address =
                              ContractBefore(attrs, MarkerAt(attrs, i))
                       /\ tx_out[i].sender =
                              FirstValue(attrs,
                                         {q \in span : /\ attrs[q].key \in SENDER_KEYS
                                                       /\ attrs[q].value # NoneStr},
                                         NoneStr)
                       /\ tx_out[i].amount =
                              FirstValue(attrs,
                                         {q \in span : /\ attrs[q].key \in AMOUNT_KEYS
                                                       /\ attrs[q].value # NoneText},
                                         NoneText)

\* two markers in one event, each followed by its own sender
C32_Witness ==
    /\ tx_pc = "segmented"
    /\ tx_in.logs[1][1].attributes =
           <<AttrOf("deposit"), AttrOf("sender"), AttrOf("redeem"), AttrOf("from")>>
    /\ Len(tx_out) = 2
    /\ tx_out[1].sender = "terra1a"
    /\ tx_out[2].sender = "terra1b"

(***************************************************************************)
(* C33: _aggregate_raw gives, for each action kind, exactly one row per    *)
(* (hour, wallet) pair occurring among the raw-log rows of that kind whose *)
(* hour lies in [start, end], with the sum of all those rows' amounts,     *)
(* however the rows fall into chunks; rows outside the window contribute   *)
(* nothing.                                                                *)
(***************************************************************************)
\* the rows of the raw log of one kind within the window
KindRows(action) ==
    SelectSeq(sink, LAMBDA r : r.action = action /\ start <= r.hour /\ r.hour <= end)

\* one row per (hour, wallet) pair of KindRows, with the sum of the pair's rows
ExpectedTotals(action) ==
    LET kept == KindRows(action)
    IN  {[hour |-> kept[i].hour, wallet |-> kept[i].wallet,
          amount |-> SumAmounts(SelectSeq(kept, LAMBDA r : SameKey(r, kept[i])))] :
            i \in 1..Len(kept)}

C33_HourlySums ==
    hourly.kind # "pending" =>
        /\ hourly.deposits = ExpectedTotals("deposit_stable")
        /\ hourly.redeems = ExpectedTotals("redeem_stable")
        /\ \A t \in hourly.deposits : \A u \in hourly.deposits : SameKey(t, u) => t = u
        /\ \A t \in hourly.redeems : \A u \in hourly.redeems : SameKey(t, u) => t = u

\* a raw log of two chunks: the pair (hour 0, terra1a) has a deposit in each
\* chunk, and the deposit of the next hour lies outside the window
C33_Witness ==
    /\ hourly.kind = "saved"
    /\ start = 0 /\ end = 0
    /\ sink = <<AggRow(0, "terra1a", "deposit_stable", [n |-> 5, d |-> 6]),
                AggRow(TicksPerHour, "terra1a", "deposit_stable", [n |-> 5, d |-> 6]),
                AggRow(0, "terra1a", "deposit_stable", [n |-> 15, d |-> 1])>>
    /\ hourly.deposits = {[hour |-> 0, wallet |-> "terra1a", amount |-> [n |-> 1500005, d |-> 6]]}

(***************************************************************************)
(* C34: when the environment gives a valid integer start offset and a      *)
(* checkpoint for the same window exists as well, the manual offset wins:  *)
(* no fetch of the run takes its offset from the checkpoint, the first     *)
(* fetch is at the manual offset, and the checkpoint is overwritten by the *)
(* pages harvested from there (it is left as found while no page has been  *)
(* harvested).                                                             *)
(***************************************************************************)
ManualOverCheckpoint ==
    /\ pc # "idle"
    /\ manual_offset.kind = "int"
    /\ CheckpointMatches(read_checkpoint)

\* the last harvested fetch of the run
LastHarvested == CHOOSE i \in HarvestedFetches : \A j \in HarvestedFetches : j <= i

C34_ManualOffsetWins ==
    ManualOverCheckpoint =>
        /\ latest_calls = 0 /\ probes = 0
        /\ \A i \in 1..Len(fetched) : fetched[i].src # "checkpoint"
        /\ fetched # <<>> => fetched[1].offset = manual_offset.val
        /\ \A i \in 2..Len(fetched) : fetched[i].offset = FetchedPage(i - 1).next
        /\ HarvestedFetches = {} => checkpoint = read_checkpoint
        /\ (HarvestedFetches # {} /\ pc \in {"fetch", "done", "raised"}) =>
               checkpoint = [kind |-> "ok", window_start |-> start, window_end |-> end,
                             offset |-> FetchedPage(LastHarvested).next]

\* the run started at the manual offset, which is not the checkpoint's, has
\* harvested two pages and written the checkpoint of the second
C34_Witness ==
    /\ ManualOverCheckpoint
    /\ pc = "done"
    /\ manual_offset.val = MaxTx
    /\ read_checkpoint.offset \notin {None, manual_offset.val}
    /\ Cardinality(HarvestedFetches) = 2
    /\ sink # <<>>
    /\ checkpoint # read_checkpoint
    /\ \A i \in 1..Len(fetched) : fetched[i].offset # read_checkpoint.offset

(***************************************************************************)
(* C35.  Within one run the harvest loop never fetches and processes the   *)
(* same page twice: the offsets of its fetches are pairwise distinct, also *)
(* after a non-empty page whose response carries no continuation value.    *)
(* (Violated: the loop goes on with offset None, which is the head of the  *)
(* log.)                                                                   *)
(***************************************************************************)
C35_NoPageTwice ==
    \A i \in 1..Len(fetched) : \A j \in 1..Len(fetched) :
        i < j => fetched[i].offset # fetched[j].offset

(***************************************************************************)
(* C36.  Whenever the offset seek yields a starting offset, no transaction *)
(* with a timestamp in [start, end] lies at a position newer than the      *)
(* starting page (the page at offset o holds the transactions with an id   *)
(* below o), for every max_seek_pages >= 1.  (Violated: a probe accepts a  *)
(* page as soon as its newest transaction is not after the window end, and *)
(* the transaction with the id latest_id is on no page of the range.)      *)
(***************************************************************************)
C36_SeekCoversWindow ==
    (pc = "fetch" /\ offset_src = "seek") =>
        \A id \in 1..Len(txlog) : InWindow(ts_of(id)) => id < offset

(***************************************************************************)
(* C37.  Re-invoking _collect_actions with the same window after a run     *)
(* that completed normally (by crossing the window-start boundary, by an   *)
(* empty page, or at the end of the log) appends no row to the sink.       *)
(* (Violated: a run that crosses the window start on the page that ends    *)
(* the log leaves a checkpoint whose offset is None; the next invocation   *)
(* takes it for no offset, seeks again and appends the rows again.)        *)
(***************************************************************************)
\* the checkpoint this invocation read was written for a page whose oldest
\* transaction is before the window start: the run before stopped there
PrevCrossedStart ==
    LET ck == read_checkpoint
        oldest == IF ck.offset = None THEN 1 ELSE ck.offset
    IN  /\ CheckpointMatches(ck)
        /\ oldest \in 1..Len(txlog)
        /\ ts_of(oldest) < start

\* the run before went on to an empty page: the offset it left has no page
PrevEmptyPage ==
    /\ CheckpointMatches(read_checkpoint)
    /\ read_checkpoint.offset # None
    /\ fetch_page(read_checkpoint.offset).txs = <<>>

\* the run before reached the end of the log: its last page had no next offset
PrevEndOfLog ==
    CheckpointMatches(read_checkpoint) /\ read_checkpoint.offset = None

C37_RerunAppendsNothing ==
    [][(prev_exit = "done" /\ (PrevCrossedStart \/ PrevEmptyPage \/ PrevEndOfLog))
           => sink' = sink]_vars

(***************************************************************************)
(* C38.  A checkpoint file that exists but cannot be decoded (for example  *)
(* truncated by a kill during its write) is treated as absent: the         *)
(* invocation that finds it reads no checkpoint, does not raise, and       *)
(* begins with a fresh seek (no start offset being set in the              *)
(* environment).                                                           *)
(***************************************************************************)
Returned_pcs == {"idle", "done", "killed", "raised"}

C38_CorruptIsAbsent ==
    [][(/\ pc \in Returned_pcs
        /\ pc' \notin Returned_pcs
        /\ checkpoint.kind = "corrupt"
        /\ ~ManualApplies(manual_offset))
           => /\ read_checkpoint' = NoCheckpoint
              /\ pc' = "latest"
              /\ seeking' /\ offset' = None /\ offset_src' = "none"]_vars

\* an invocation after a kill that left the checkpoint file truncated is seeking
C38_Witness ==
    /\ pc = "probe"
    /\ prev_exit = "killed"
    /\ checkpoint.kind = "corrupt"
    /\ read_checkpoint = NoCheckpoint
    /\ seeking /\ offset = None
    /\ sink # <<>>

(***************************************************************************)
(* C39.  Every transaction returned by search_txs has a timestamp in       *)
(* [start_time, end_time], in both pagination directions and in both       *)
(* height-filtered and time-only modes; in descending mode the search      *)
(* returns as soon as a transaction older than start_time is seen; and the *)
(* number of successful page requests never exceeds max_pages.  As stated  *)
(* the last part fails for a cap of zero: the cap is tested after a page   *)
(* has been read.  It holds with the larger of max_pages and one.          *)
(***************************************************************************)
\* the page requests that returned a response
OkRequests == {i \in 1..Len(requests) : requests[i].outcome = "ok"}

\* the response to the i-th request
ResponseOf(i) == txs_page(requests[i].use_height, requests[i].key).tx_responses

\* a descending search was handed a transaction older than start_time by its
\* i-th request
SeenOlder(i) ==
    /\ reverse
    /\ i \in OkRequests
    /\ LET txs == ResponseOf(i)
       IN  \E k \in 1..Len(txs) : block_time(txs[k]) < start_time

RowsInWindow ==
    \A i \in 1..Len(search_rows) :
        LET ts == block_time(search_rows[i])
        IN  start_time <= ts /\ ts <= end_time

ReturnsAtOlder ==
    \A i \in 1..Len(requests) :
        SeenOlder(i) => i = Len(requests) /\ search_pc = "returned"

C39_SearchInWindow_Original ==
    /\ RowsInWindow
    /\ ReturnsAtOlder
    /\ Cardinality(OkRequests) <= lcd_max_pages

C39_SearchInWindow ==
    /\ RowsInWindow
    /\ ReturnsAtOlder
    /\ Cardinality(OkRequests) <= Max(lcd_max_pages, 1)

\* a descending search that has used its two pages after a fallback and has
\* returned from within the second on a transaction before the window
C39_Witness ==
    /\ search_pc = "returned"
    /\ reverse
    /\ height_filter /\ ~use_height
    /\ Cardinality(OkRequests) = lcd_max_pages
    /\ lcd_max_pages = LcdMaxPages
    /\ SeenOlder(Len(requests))
    /\ Len(search_rows) >= 2

(***************************************************************************)
(* C40.  When search_txs falls back from the height-filtered query to the  *)
(* time-only query after at least one page has been accumulated, the       *)
(* returned list still contains each matching transaction at most once.    *)
(* (Violated: the fallback resets the pagination key and keeps rows, so    *)
(* the time-only query appends the first pages' transactions again.)       *)
(***************************************************************************)
\* a height-filtered request was rejected after an earlier one had returned rows
FellBackAfterPage ==
    \E i \in 2..Len(requests) :
        /\ requests[i].outcome = "rejected"
        /\ \E j \in 1..(i - 1) : requests[j].outcome = "ok" /\ ResponseOf(j) # <<>>

C40_NoDuplicateRows ==
    (search_pc = "returned" /\ FellBackAfterPage) =>
        \A i \in 1..Len(search_rows) : \A j \in 1..Len(search_rows) :
            i # j => search_rows[i] # search_rows[j]

====
